---- MODULE Spec2Model ----
(***************************************************************************)
(* Verification model of the e-commerce backend (Express + Mongoose) and   *)
(* of the frontend API client.                                             *)
(*                                                                         *)
(* Conventions.  A MongoDB collection is a function or a set of documents. *)
(* The database outlives the server process, so the initial state draws    *)
(* the stored users and sessions from the documents the schemas admit.     *)
(* The value 0 stands for JavaScript's undefined / null wherever an id, a   *)
(* timestamp or a random token is expected.  Time is counted in hours.     *)
(***************************************************************************)
EXTENDS Integers, Sequences, FiniteSets, TLC

VARIABLES
    users,          \* User collection: UserIds -> user document
    refreshDocs,    \* RefreshToken collection: set of documents
    nextId,         \* next ObjectId handed out for a RefreshToken document
    randCtr,        \* number of crypto.randomBytes values drawn for reset tokens
    now,            \* wall clock, hours
    ticks,          \* number of clock advances so far
    resp,           \* the response to the last request that completed
    registered,     \* emails -> password a 201 register was answered for ("" = none)
    issuedAccess,   \* access tokens returned by 200 answers of login / refresh-token
    pwChanged,      \* users whose stored password a resetPassword has overwritten
    exited,         \* the process has run process.exit(1)
    inflight,       \* refresh-token requests between their two database phases
    rotated,        \* refresh tokens a 200 refresh-token answer has replaced
    returned,       \* refresh tokens handed out by 200 answers (or stored at start-up)
    revoked,        \* refresh tokens a logout has deleted
    issuedReset     \* reset tokens forgotPassword has mailed: [token, user, expires]

authVars == <<users, refreshDocs, nextId, randCtr, now, ticks, resp,
              registered, issuedAccess, pwChanged, exited, inflight,
              rotated, returned, revoked, issuedReset>>

\* The browser client: the tokens ApiClient holds, and the refresh tokens it
\* held when a logout completed.
VARIABLES clientAccess, clientRefresh, loggedOut

clientVars == <<clientAccess, clientRefresh, loggedOut>>

\* The shop: Product, Cart, Coupon and Order collections, the payments the
\* provider confirmed, and the createOrder requests in flight.
VARIABLES products, stock0, carts, coupon, charged, orders, req, started, totalDec,
          deducted

orderVars == <<products, stock0, carts, coupon, charged, orders, req, started, totalDec,
               deducted>>

\* The answer of the last cart, catalogue or order-administration request, the
\* cancelOrder requests in flight, the stock they put back for each order, and
\* the next _id of a cart line.
VARIABLES reply, cancelReq, restored, nextLine

\* The register requests between their two database calls, and their answers.
VARIABLES signup

\* For each product, what last happened to its isActive flag: "live" (never
\* deleted), "deleted" (deleteProduct), "toggled" or "updated" (set active
\* again by toggleProductActiveStatus or by updateProduct).
VARIABLES trail

shopVars == <<reply, cancelReq, restored, nextLine, signup, trail>>

\* The frontend ApiClient: the requests between their awaited calls.
VARIABLES apiCalls

apiVars == <<apiCalls>>

\* Redis: the value stored under the session key, the SessionService calls
\* between their awaited Redis commands, and whether destroySession completed.
VARIABLES session, sessionOps, destroyed

sessionVars == <<session, sessionOps, destroyed>>

\* ProductService: the inventory of the product document, the Redis cache
\* entries, the service calls between their awaited calls, and for each
\* product the quantity a completed updateProductInventory wrote (-1: none).
VARIABLES stocked, cache, cacheOps, updatedTo

cacheVars == <<stocked, cache, cacheOps, updatedTo>>

\* The frontend cart store: its cart (named by the request whose response
\* it came from), its isLoading flag and its actions in flight.
VARIABLES storeCart, isLoading, storeOps

storeVars == <<storeCart, isLoading, storeOps>>

sideVars == <<apiVars, sessionVars, cacheVars, storeVars>>

vars == <<authVars, clientVars, orderVars, shopVars, sideVars>>

-----------------------------------------------------------------------------
(* Bounds of the model *)

MaxUsers == 2
MaxTicks == 1
MaxDocs  == 4
MaxRand  == 2
MaxInflight == 2

(* Program constants, in hours *)

ResetTokenTTL  == 1
RefreshDocTTL  == 168
AccessTokenTTL == 168
RefreshJwtTTL  == 720

UserIds   == 1..MaxUsers
Emails    == {"a@shop.io", "b@shop.io"}
Passwords == {"Passw0rd!", "Secr3t!!"}
Roles     == {"customer", "admin", "vendor"}
TickSteps == {ResetTokenTTL, RefreshDocTTL}

-----------------------------------------------------------------------------
(* bcryptjs *)

\* A stored password: the plain text it derives from and how many times
\* bcrypt.hash has been applied to it.  rounds = 0 with plain = "" is the
\* value of a field the query did not select (undefined).
UndefinedPw == [plain |-> "", rounds |-> 0]

PlainPw(p) == [plain |-> p, rounds |-> 0]

bcryptHash(v) == [plain |-> v.plain, rounds |-> v.rounds + 1]

\* bcrypt.compare(candidate, hash): rejects ("throw") when hash is not a string,
\* otherwise tells whether hash is the bcrypt hash of the candidate itself.
bcryptCompare(candidate, hash) ==
    IF hash = UndefinedPw THEN "throw"
    ELSE IF hash = bcryptHash(PlainPw(candidate)) THEN "true"
    ELSE "false"

-----------------------------------------------------------------------------
(* User model *)

NoUser ==
    [exists |-> FALSE, email |-> "", password |-> UndefinedPw, isActive |-> FALSE,
     role |-> "customer", passwordResetToken |-> 0, passwordResetTokenExpires |-> 0]

\* UserSchema defaults: role "customer", isActive true.
NewUser(email, pw) ==
    [exists |-> TRUE, email |-> email, password |-> pw, isActive |-> TRUE,
     role |-> "customer", passwordResetToken |-> 0, passwordResetTokenExpires |-> 0]

\* UserSchema.pre("save"): hashes the password whenever the path is modified.
preSaveUser(doc, passwordModified) ==
    IF passwordModified THEN [doc EXCEPT !.password = bcryptHash(doc.password)]
    ELSE doc

\* What a query hands back: the password path is declared select: false.
Selected(doc) == [doc EXCEPT !.password = UndefinedPw]

\* User.findOne({ email }) -> id of the document, 0 when there is none.
findOneByEmail(U, email) ==
    IF \E u \in UserIds : U[u].exists /\ U[u].email = email
    THEN CHOOSE u \in UserIds : U[u].exists /\ U[u].email = email
    ELSE 0

\* User.findById(id): 0 (undefined) and unknown ids find nothing.
findById(U, id) ==
    IF id \in UserIds /\ U[id].exists THEN id ELSE 0

FreeUserIds(U) == {u \in UserIds : ~U[u].exists}

-----------------------------------------------------------------------------
(* JSON web tokens *)

\* A bearer string, by what jwt.verify makes of it: the secret it was signed
\* with (typ), its payload (userId, id, tokenId) and its exp claim.
Jwt(typ, userId, id, tokenId, exp) ==
    [typ |-> typ, userId |-> userId, id |-> id, tokenId |-> tokenId, exp |-> exp]

NoToken == Jwt("none", 0, 0, 0, 0)
Garbage == Jwt("garbage", 0, 0, 0, 0)

\* jwt.verify(token, secret): throws unless signed with that secret and unexpired.
jwtVerify(token, secret, t) == token.typ = secret /\ t < token.exp

\* TokenUtils.generateAccessToken: payload { userId, email, role }.
generateAccessToken(uid, t) == Jwt("access", uid, 0, 0, t + AccessTokenTTL)

\* The JWT that TokenUtils.generateRefreshToken signs: payload { userId, tokenId }.
refreshJwt(uid, tokenId, t) == Jwt("refresh", uid, 0, tokenId, t + RefreshJwtTTL)

\* A RefreshToken document.  hex = TRUE marks the document generateRefreshToken
\* stores, whose token is crypto.randomBytes(64) and not the JWT.
RefreshDoc(id, uid, token, hex, expiresAt) ==
    [id |-> id, userId |-> uid, token |-> token, hex |-> hex, expiresAt |-> expiresAt]

\* RefreshToken.findOne({ token }): the documents holding that string.
findTokenDocs(D, token) == {d \in D : ~d.hex /\ d.token = token}

\* TokenUtils.generateTokens(user): saves one RefreshToken document holding a
\* random hex string and returns the access token and the refresh JWT.
generateTokens(D, nid, uid, t) ==
    [docs    |-> D \cup {RefreshDoc(nid, uid, NoToken, TRUE, t + RefreshDocTTL)},
     nextId  |-> nid + 1,
     accessToken  |-> generateAccessToken(uid, t),
     refreshToken |-> refreshJwt(uid, nid, t)]

-----------------------------------------------------------------------------
(* Middleware *)

\* The Authorization header: absent, one word (no space), or "<scheme> <token>".
Header(kind, token) == [kind |-> kind, token |-> token]

\* authHeader && authHeader.split(" ")[1]
HeaderToken(hdr) == IF hdr.kind = "bearer" THEN hdr.token ELSE NoToken

\* One run of a middleware: the arguments of its calls of next, in order
\* (0 = next() without an error, otherwise the statusCode of the error), and
\* the user it stored in req.user (0 = unset).
MwResult(calls, user, msg) == [calls |-> calls, user |-> user, msg |-> msg]

\* The same with the `return` of the "User not found" branch missing: execution
\* falls through to user.isActive on null, which throws into the catch block.
authenticateToken_noReturn(hdr, U, t) ==
    LET token == HeaderToken(hdr) IN
    IF token.typ = "none" THEN MwResult(<<401>>, 0, "Access token required")
    ELSE IF ~jwtVerify(token, "access", t) THEN MwResult(<<401>>, 0, "Invalid token")
    ELSE LET user == findById(U, token.id) IN
         IF user = 0 THEN MwResult(<<401, 401>>, 0, "Invalid token")
         ELSE IF ~U[user].isActive
              THEN MwResult(<<401>>, 0, "User account is deactivated")
              ELSE MwResult(<<0>>, user, "")

authenticateToken(hdr, U, t) ==
    LET token == HeaderToken(hdr) IN
    IF token.typ = "none" THEN MwResult(<<401>>, 0, "Access token required")
    ELSE IF ~jwtVerify(token, "access", t) THEN MwResult(<<401>>, 0, "Invalid token")
    ELSE LET user == findById(U, token.id) IN     \* decoded.id
         IF user = 0 THEN MwResult(<<401>>, 0, "User not found")
         ELSE IF ~U[user].isActive
              THEN MwResult(<<401>>, 0, "User account is deactivated")
              ELSE MwResult(<<0>>, user, "")

\* authorize(...roles) with the role test dropped.
authorize_noRoleCheck(roles, reqUser, U) ==
    IF reqUser = 0 THEN MwResult(<<401>>, reqUser, "User not authenticated")
    ELSE MwResult(<<0>>, reqUser, "")

authorize(roles, reqUser, U) ==
    IF reqUser = 0 THEN MwResult(<<401>>, reqUser, "User not authenticated")
    ELSE IF U[reqUser].role \notin roles
         THEN MwResult(<<403>>, reqUser, "Not authorized to access this resource")
         ELSE MwResult(<<0>>, reqUser, "")


-----------------------------------------------------------------------------
(* Routes: the middleware each router puts in front of its controller *)

ProductRoutes ==
    [getProducts           |-> <<"optionalAuth", "validate">>,
     searchProducts        |-> <<"optionalAuth", "validate">>,
     getProductsByCategory |-> <<"optionalAuth">>,
     getProductById        |-> <<"optionalAuth", "validate">>,
     createProduct         |-> <<"authenticateToken", "authorizeAdmin", "apiRateLimiter", "validate">>,
     updateProduct         |-> <<"authenticateToken", "authorizeAdmin", "validate">>,
     deleteProduct         |-> <<"authenticateToken", "authorizeAdmin", "validate">>,
     uploadProductImages   |-> <<"authenticateToken", "authorizeAdmin", "validate">>,
     getProductReviews     |-> <<"validate">>,
     addProductReview      |-> <<"authenticateToken", "validate">>,
     updateProductReview   |-> <<"authenticateToken", "validate">>,
     deleteProductReview   |-> <<"authenticateToken", "validate">>]

OrderRoutes ==
    [createOrder       |-> <<"authenticateToken", "apiRateLimiter", "validate">>,
     getOrders         |-> <<"authenticateToken", "validate">>,
     getOrderHistory   |-> <<"authenticateToken", "validate">>,
     getOrderById      |-> <<"authenticateToken", "validate">>,
     cancelOrder       |-> <<"authenticateToken", "validate">>,
     getAllOrders      |-> <<"authenticateToken", "authorizeAdmin">>,
     getOrderStats     |-> <<"authenticateToken", "authorizeAdmin">>,
     updateOrderStatus |-> <<"authenticateToken", "authorizeAdmin", "validate">>]

RouteNames == DOMAIN ProductRoutes \cup DOMAIN OrderRoutes

RouteChain(r) == IF r \in DOMAIN ProductRoutes THEN ProductRoutes[r] ELSE OrderRoutes[r]

\* optionalAuth: stores the user when the token verifies and the user is active,
\* and calls next() without an error in every case.
optionalAuth(hdr, U, t) ==
    LET token == HeaderToken(hdr)
        user  == findById(U, token.id) IN
    IF token.typ # "none" /\ jwtVerify(token, "access", t) /\ user # 0 /\ U[user].isActive
    THEN MwResult(<<0>>, user, "")
    ELSE MwResult(<<0>>, 0, "")

\* One middleware of a chain, run on a request.  valid: the express-validator
\* chain finds no error; limited: the rate limiter's window is used up.
runMiddleware(mw, reqUser, hdr, valid, limited, U, t) ==
    CASE mw = "authenticateToken" -> authenticateToken(hdr, U, t)
      [] mw = "optionalAuth"      -> optionalAuth(hdr, U, t)
      [] mw = "authorizeAdmin"    -> authorize({"admin"}, reqUser, U)
      [] mw = "validate"          -> IF valid THEN MwResult(<<0>>, reqUser, "")
                                     ELSE MwResult(<<400>>, reqUser, "Validation failed")
      [] mw = "apiRateLimiter"    -> IF limited THEN MwResult(<<429>>, reqUser, "API rate limit exceeded")
                                     ELSE MwResult(<<0>>, reqUser, "")

\* The outcome of routing one request: the status the error handler or the
\* rate limiter answered (0 when the controller was reached and answers itself),
\* whether the controller was invoked, req.user, and how many times each
\* middleware that ran called next.
RouteResult(status, invoked, user, nextCalls) ==
    [status |-> status, invoked |-> invoked, user |-> user, nextCalls |-> nextCalls]

\* Express walks the chain: next() moves on to the following layer; next(err)
\* skips to errorHandler, which answers err.statusCode || 500.
RECURSIVE dispatch(_, _, _, _, _, _, _, _, _)
dispatch(chain, i, reqUser, hdr, valid, limited, U, t, counts) ==
    IF i > Len(chain) THEN RouteResult(0, TRUE, reqUser, counts)
    ELSE LET r == runMiddleware(chain[i], reqUser, hdr, valid, limited, U, t)
             c == Append(counts, Len(r.calls)) IN
         IF r.calls[1] # 0 THEN RouteResult(r.calls[1], FALSE, r.user, c)
         ELSE dispatch(chain, i + 1, r.user, hdr, valid, limited, U, t, c)

handleRoute(route, hdr, valid, limited, U, t) ==
    dispatch(RouteChain(route), 1, 0, hdr, valid, limited, U, t, <<>>)


-----------------------------------------------------------------------------
(* Responses *)

NoHeader == Header("none", NoToken)

\* The answer to a request, with what the request carried.
BaseResp ==
    [op |-> "", status |-> 0, message |-> "", email |-> "", password |-> "",
     token |-> NoToken, reset |-> 0, hdr |-> NoHeader, route |-> "",
     accessToken |-> NoToken, refreshToken |-> NoToken,
     invoked |-> FALSE, user |-> 0, nextCalls |-> <<>>, stale |-> FALSE]

Answer(op, status, message) ==
    [BaseResp EXCEPT !.op = op, !.status = status, !.message = message]

-----------------------------------------------------------------------------
(* authController.register *)

register(email, pw) ==
    /\ ~exited
    /\ LET existing == findOneByEmail(users, email)
           r == [Answer("register", 0, "") EXCEPT !.email = email, !.password = pw] IN
       IF existing # 0
       THEN /\ resp' = [r EXCEPT !.status = 409,
                                 !.message = "User already exists with this email"]
            /\ UNCHANGED <<users, registered>>
       ELSE /\ FreeUserIds(users) # {}
            /\ LET id  == CHOOSE u \in FreeUserIds(users) : \A v \in FreeUserIds(users) : u <= v
                   \* password: await bcrypt.hash(password, 12), then user.save()
                   doc == preSaveUser(NewUser(email, bcryptHash(PlainPw(pw))), TRUE) IN
               /\ users' = [users EXCEPT ![id] = doc]
               /\ registered' = [registered EXCEPT ![email] = pw]
               /\ resp' = [r EXCEPT !.status = 201, !.user = id,
                                    !.message = "User registered successfully"]
    /\ UNCHANGED <<refreshDocs, nextId, randCtr, now, ticks, issuedAccess,
                   pwChanged, exited, inflight, rotated, returned, revoked,
                   issuedReset>>
    /\ UNCHANGED <<clientVars, sideVars, orderVars, shopVars>>

\* A register request that is not running.
NoSignup == [stage |-> "idle", email |-> "", password |-> "", status |-> 0, message |-> ""]

\* register, its two database calls taken apart, for requests that overlap.
\* Lines 26-33: User.findOne({ email }) and the 409 answer.
registerFind(k, email, pw) ==
    /\ ~exited
    /\ signup[k].stage = "idle"
    /\ LET q == [NoSignup EXCEPT !.email = email, !.password = pw] IN
       IF findOneByEmail(users, email) # 0
       THEN signup' = [signup EXCEPT ![k] =
                [q EXCEPT !.stage = "done", !.status = 409,
                          !.message = "User already exists with this email"]]
       ELSE signup' = [signup EXCEPT ![k] = [q EXCEPT !.stage = "save"]]
    /\ UNCHANGED <<authVars, clientVars, sideVars, orderVars, reply, cancelReq, restored, nextLine, trail>>

\* Lines 35-81: bcrypt.hash, user.save() under the unique index on email, the
\* 201 answer; a save the index rejects lands in the catch block.
registerSave(k) ==
    /\ ~exited
    /\ signup[k].stage = "save"
    /\ IF findOneByEmail(users, signup[k].email) # 0
       THEN /\ signup' = [signup EXCEPT ![k].stage = "done", ![k].status = 500,
                                         ![k].message = "Internal server error"]
            /\ UNCHANGED <<users, registered>>
       ELSE /\ FreeUserIds(users) # {}
            /\ LET id  == CHOOSE u \in FreeUserIds(users) : \A v \in FreeUserIds(users) : u <= v
                   doc == preSaveUser(NewUser(signup[k].email,
                                              bcryptHash(PlainPw(signup[k].password))), TRUE) IN
               /\ users' = [users EXCEPT ![id] = doc]
               /\ registered' = [registered EXCEPT ![signup[k].email] = signup[k].password]
               /\ signup' = [signup EXCEPT ![k].stage = "done", ![k].status = 201,
                                           ![k].message = "User registered successfully"]
    /\ UNCHANGED <<refreshDocs, nextId, randCtr, now, ticks, resp, issuedAccess,
                   pwChanged, exited, inflight, rotated, returned, revoked,
                   issuedReset>>
    /\ UNCHANGED <<clientVars, sideVars, orderVars, reply, cancelReq, restored, nextLine, trail>>

\* The client reads the answer; the slot takes the next request.
registerDone(k) ==
    /\ signup[k].stage = "done"
    /\ signup' = [signup EXCEPT ![k] = NoSignup]
    /\ UNCHANGED <<authVars, clientVars, sideVars, orderVars, reply, cancelReq, restored, nextLine, trail>>

-----------------------------------------------------------------------------
(* authController.login *)

\* Lines 124-133: generateTokens, then a second RefreshToken document that
\* holds the refresh JWT itself.
loginIssue(D, nid, uid, t) ==
    LET g == generateTokens(D, nid, uid, t) IN
    [docs   |-> g.docs \cup {RefreshDoc(g.nextId, uid, g.refreshToken, FALSE, t + RefreshDocTTL)},
     nextId |-> g.nextId + 1,
     accessToken  |-> g.accessToken,
     refreshToken |-> g.refreshToken]

\* The password check of login on the user document the query returned:
\* bcrypt.compare(password, user.password).
loginCompare(pw, userDoc) == bcryptCompare(pw, userDoc.password)

login(email, pw) ==
    /\ ~exited
    /\ LET id == findOneByEmail(users, email)
           r  == [Answer("login", 0, "") EXCEPT !.email = email, !.password = pw] IN
       IF id = 0
       THEN /\ resp' = [r EXCEPT !.status = 401, !.message = "Invalid credentials"]
            /\ UNCHANGED <<refreshDocs, nextId, issuedAccess, returned>>
       ELSE IF ~users[id].isActive
       THEN /\ resp' = [r EXCEPT !.status = 401, !.message = "Account has been deactivated"]
            /\ UNCHANGED <<refreshDocs, nextId, issuedAccess, returned>>
       ELSE LET cmp == loginCompare(pw, Selected(users[id])) IN
            IF cmp = "throw"
            THEN /\ resp' = [r EXCEPT !.status = 500, !.message = "Internal server error"]
                 /\ UNCHANGED <<refreshDocs, nextId, issuedAccess, returned>>
            ELSE IF cmp = "false"
            THEN /\ resp' = [r EXCEPT !.status = 401, !.message = "Invalid credentials"]
                 /\ UNCHANGED <<refreshDocs, nextId, issuedAccess, returned>>
            ELSE /\ nextId + 1 <= MaxDocs
                 /\ LET g == loginIssue(refreshDocs, nextId, id, now) IN
                    /\ refreshDocs' = g.docs
                    /\ nextId' = g.nextId
                    /\ issuedAccess' = issuedAccess \cup {[token |-> g.accessToken, user |-> id]}
                    /\ returned' = returned \cup {g.refreshToken}
                    /\ resp' = [r EXCEPT !.status = 200, !.message = "Login successful",
                                         !.user = id, !.accessToken = g.accessToken,
                                         !.refreshToken = g.refreshToken]
    /\ UNCHANGED <<users, randCtr, now, ticks, registered, pwChanged, exited,
                   inflight, rotated, revoked, issuedReset>>
    /\ UNCHANGED <<clientVars, sideVars, orderVars, shopVars>>


-----------------------------------------------------------------------------
(* Requests to the product and order routers *)

\* Bearer strings that verify under JWT_SECRET and carry the `id` claim that
\* authenticateToken reads; generateAccessToken signs none of these.
IdTokens == {Jwt("access", 0, u, 0, AccessTokenTTL) : u \in UserIds}

BearerTokens == {Garbage} \cup {a.token : a \in issuedAccess} \cup IdTokens

Headers == {NoHeader, Header("word", NoToken)} \cup {Header("bearer", tk) : tk \in BearerTokens}

routeRequest(route, hdr, valid, limited) ==
    /\ ~exited
    /\ LET r == handleRoute(route, hdr, valid, limited, users, now) IN
       resp' = [Answer("route", r.status, "") EXCEPT
                   !.route = route, !.hdr = hdr, !.invoked = r.invoked,
                   !.user = r.user, !.nextCalls = r.nextCalls]
    /\ UNCHANGED <<users, refreshDocs, nextId, randCtr, now, ticks, registered,
                   issuedAccess, pwChanged, exited, inflight, rotated, returned,
                   revoked, issuedReset>>
    /\ UNCHANGED <<clientVars, sideVars, orderVars, shopVars>>

\* A request that only runs authenticateToken (any route it guards).
authenticate(hdr) ==
    /\ ~exited
    /\ LET a == authenticateToken(hdr, users, now) IN
       resp' = [Answer("authenticate", a.calls[Len(a.calls)], a.msg) EXCEPT
                   !.hdr = hdr, !.user = a.user, !.nextCalls = <<Len(a.calls)>>]
    /\ UNCHANGED <<users, refreshDocs, nextId, randCtr, now, ticks, registered,
                   issuedAccess, pwChanged, exited, inflight, rotated, returned,
                   revoked, issuedReset>>
    /\ UNCHANGED <<clientVars, sideVars, orderVars, shopVars>>

-----------------------------------------------------------------------------
(* authController.refreshToken *)

Idle == [stage |-> "idle", token |-> NoToken, docId |-> 0, uid |-> 0]

\* Lines 192-231: everything up to the user check.  The answer when the
\* request ends here, 0 when it goes on to issue tokens.
refreshLookup(D, U, token, t) ==
    LET docs == findTokenDocs(D, token) IN
    IF token.typ = "none" THEN [status |-> 401, message |-> "Refresh token is required", doc |-> 0, uid |-> 0, drop |-> {}]
    ELSE IF docs = {} THEN [status |-> 401, message |-> "Invalid refresh token", doc |-> 0, uid |-> 0, drop |-> {}]
    ELSE LET d == CHOOSE x \in docs : TRUE IN
         IF d.expiresAt < t
         THEN [status |-> 401, message |-> "Refresh token has expired", doc |-> 0, uid |-> 0, drop |-> {d}]
         ELSE IF ~jwtVerify(token, "refresh", t)
         THEN [status |-> 500, message |-> "Internal server error", doc |-> 0, uid |-> 0, drop |-> {}]
         ELSE LET user == findById(U, token.userId) IN
              IF user = 0 \/ ~U[user].isActive
              THEN [status |-> 401, message |-> "Invalid user", doc |-> 0, uid |-> 0, drop |-> {}]
              ELSE [status |-> 0, message |-> "", doc |-> d.id, uid |-> user, drop |-> {}]

refreshFind(k, token) ==
    /\ ~exited
    /\ inflight[k].stage = "idle"
    /\ LET l == refreshLookup(refreshDocs, users, token, now) IN
       IF l.status # 0
       THEN /\ resp' = [Answer("refresh", l.status, l.message) EXCEPT
                           !.token = token, !.stale = (token \in rotated)]
            /\ refreshDocs' = refreshDocs \ l.drop
            /\ UNCHANGED inflight
       ELSE /\ inflight' = [inflight EXCEPT ![k] =
                               [stage |-> "issue", token |-> token, docId |-> l.doc, uid |-> l.uid]]
            /\ UNCHANGED <<resp, refreshDocs>>
    /\ UNCHANGED <<users, nextId, randCtr, now, ticks, registered, issuedAccess,
                   pwChanged, exited, rotated, returned, revoked, issuedReset>>
    /\ UNCHANGED <<clientVars, sideVars, orderVars, shopVars>>

\* tokenDoc.save(): rewrites token and expiresAt of the document with that _id,
\* whatever it holds by now; fails when the document is gone.
saveTokenDoc(D, docId, token, expiresAt) ==
    {IF d.id = docId THEN [d EXCEPT !.token = token, !.expiresAt = expiresAt] ELSE d : d \in D}

\* Lines 233-249: generateTokens, tokenDoc.save(), the 200 answer.
refreshIssue(k) ==
    /\ ~exited
    /\ inflight[k].stage = "issue"
    /\ nextId <= MaxDocs
    /\ LET q == inflight[k]
           g == generateTokens(refreshDocs, nextId, q.uid, now) IN
       /\ nextId' = g.nextId
       /\ IF \E d \in refreshDocs : d.id = q.docId
          THEN /\ refreshDocs' = saveTokenDoc(g.docs, q.docId, g.refreshToken, now + RefreshDocTTL)
               /\ issuedAccess' = issuedAccess \cup {[token |-> g.accessToken, user |-> q.uid]}
               /\ returned' = returned \cup {g.refreshToken}
               /\ rotated' = rotated \cup {q.token}
               /\ resp' = [Answer("refresh", 200, "Token refreshed successfully") EXCEPT
                              !.token = q.token, !.user = q.uid,
                              !.accessToken = g.accessToken,
                              !.refreshToken = g.refreshToken]
          ELSE /\ refreshDocs' = g.docs
               /\ resp' = [Answer("refresh", 500, "Internal server error") EXCEPT
                              !.token = q.token]
               /\ UNCHANGED <<issuedAccess, returned, rotated>>
    /\ inflight' = [inflight EXCEPT ![k] = Idle]
    /\ UNCHANGED <<users, randCtr, now, ticks, registered, pwChanged, exited,
                   revoked, issuedReset>>
    /\ UNCHANGED <<clientVars, sideVars, orderVars, shopVars>>

-----------------------------------------------------------------------------
(* authController.logout, behind authenticateToken *)

logout(hdr, bodyToken) ==
    /\ ~exited
    /\ LET a == authenticateToken(hdr, users, now) IN
       IF a.calls[1] # 0
       THEN /\ resp' = [Answer("logout", a.calls[1], a.msg) EXCEPT !.hdr = hdr, !.token = bodyToken]
            /\ UNCHANGED <<refreshDocs, revoked>>
       ELSE /\ refreshDocs' = IF bodyToken.typ = "none" THEN refreshDocs
                              ELSE refreshDocs \ findTokenDocs(refreshDocs, bodyToken)
            /\ revoked' = IF bodyToken.typ = "none" THEN revoked ELSE revoked \cup {bodyToken}
            /\ resp' = [Answer("logout", 200, "Logout successful") EXCEPT
                           !.hdr = hdr, !.token = bodyToken, !.user = a.user, !.invoked = TRUE]
    /\ UNCHANGED <<users, nextId, randCtr, now, ticks, registered, issuedAccess,
                   pwChanged, exited, inflight, rotated, returned, issuedReset>>
    /\ UNCHANGED <<clientVars, sideVars, orderVars, shopVars>>


-----------------------------------------------------------------------------
(* authController.forgotPassword and resetPassword *)

forgotPassword(email) ==
    /\ ~exited
    /\ LET id == findOneByEmail(users, email)
           r  == [Answer("forgotPassword", 200, "If an account with that email exists") EXCEPT
                     !.email = email] IN
       IF id = 0
       THEN /\ resp' = r
            /\ UNCHANGED <<users, randCtr, issuedReset>>
       ELSE /\ randCtr < MaxRand
            /\ LET resetToken == randCtr + 1            \* crypto.randomBytes(32)
                   expiry     == now + ResetTokenTTL IN
               /\ randCtr' = resetToken
               /\ users' = [users EXCEPT ![id] =
                               preSaveUser([@ EXCEPT !.passwordResetToken = resetToken,
                                                     !.passwordResetTokenExpires = expiry],
                                           FALSE)]
               /\ issuedReset' = issuedReset \cup
                                   {[token |-> resetToken, user |-> id, expires |-> expiry]}
               /\ resp' = [r EXCEPT !.user = id, !.reset = resetToken]
    /\ UNCHANGED <<refreshDocs, nextId, now, ticks, registered, issuedAccess,
                   pwChanged, exited, inflight, rotated, returned, revoked>>
    /\ UNCHANGED <<clientVars, sideVars, orderVars, shopVars>>

\* The value a stored user document has at a path.  The schema declares
\* passwordResetToken and passwordResetTokenExpires; a path no save has ever
\* written is undefined.
storedPath(doc, path) ==
    CASE path = "passwordResetToken"        -> doc.passwordResetToken
      [] path = "passwordResetTokenExpires" -> doc.passwordResetTokenExpires
      [] OTHER                              -> 0

\* User.findOne({ resetPasswordToken: token,
\*                resetPasswordTokenExpiry: { $gt: new Date() } })
resetQuery(U, token, t) ==
    {u \in UserIds : /\ U[u].exists
                     /\ storedPath(U[u], "resetPasswordToken") = token
                     /\ storedPath(U[u], "resetPasswordTokenExpiry") > t}

\* Tokens a caller can put in the body: the mailed ones and one never mailed.
ForgedReset == MaxRand + 1
ResetInputs == {x.token : x \in issuedReset} \cup {ForgedReset}

resetPassword(token, pw) ==
    /\ ~exited
    /\ LET found == resetQuery(users, token, now)
           r == [Answer("resetPassword", 0, "") EXCEPT !.reset = token, !.password = pw] IN
       IF found = {}
       THEN /\ resp' = [r EXCEPT !.status = 400, !.message = "Invalid or expired reset token"]
            /\ UNCHANGED <<users, refreshDocs, pwChanged, registered>>
       ELSE LET id == CHOOSE u \in found : \A v \in found : u <= v IN
            /\ users' = [users EXCEPT ![id] =
                            preSaveUser([@ EXCEPT !.password = bcryptHash(PlainPw(pw)),
                                                  !.passwordResetToken = 0,
                                                  !.passwordResetTokenExpires = 0],
                                        TRUE)]
            /\ refreshDocs' = {d \in refreshDocs : d.userId # id}
            /\ pwChanged' = pwChanged \cup {id}
            /\ registered' = [registered EXCEPT ![users[id].email] = ""]
            /\ resp' = [r EXCEPT !.status = 200, !.message = "Password reset successful",
                                 !.user = id]
    /\ UNCHANGED <<nextId, randCtr, now, ticks, issuedAccess, exited, inflight,
                   rotated, returned, revoked, issuedReset>>
    /\ UNCHANGED <<clientVars, sideVars, orderVars, shopVars>>

-----------------------------------------------------------------------------
(* userController: handlers called with req.user set by authenticateToken *)

\* Users authenticateToken lets through: stored and active.
Authenticated == {u \in UserIds : users[u].exists /\ users[u].isActive}

\* An exception that leaves an async handler without a catch block: the
\* promise rejects unhandled and server.ts exits the process.
unhandledRejection(op, u) ==
    /\ exited' = TRUE
    /\ resp' = [Answer(op, 0, "unhandled rejection") EXCEPT !.user = u, !.invoked = TRUE]

updateProfile(u, email) ==
    /\ ~exited
    /\ u \in Authenticated
    /\ IF email # "" /\ \E v \in UserIds \ {u} : users[v].exists /\ users[v].email = email
       THEN \* user.save(): duplicate key on the unique email index
            /\ unhandledRejection("updateProfile", u)
            /\ UNCHANGED <<users, registered>>
       ELSE /\ users' = [users EXCEPT ![u].email = IF email = "" THEN @ ELSE email]
            /\ registered' = IF email = "" \/ email = users[u].email THEN registered
                             ELSE [registered EXCEPT ![users[u].email] = ""]
            /\ resp' = [Answer("updateProfile", 200, "") EXCEPT !.user = u, !.invoked = TRUE]
            /\ UNCHANGED exited
    /\ UNCHANGED <<refreshDocs, nextId, randCtr, now, ticks, issuedAccess, pwChanged,
                   inflight, rotated, returned, revoked, issuedReset>>
    /\ UNCHANGED <<clientVars, sideVars, orderVars, shopVars>>

changePassword(u, currentPassword, newPassword) ==
    /\ ~exited
    /\ u \in Authenticated
    /\ LET cmp == bcryptCompare(currentPassword, Selected(users[u]).password) IN
       IF cmp = "throw"
       THEN /\ unhandledRejection("changePassword", u)
            /\ UNCHANGED <<users, registered>>
       ELSE IF cmp = "false"
       THEN /\ resp' = [Answer("changePassword", 400, "Current password is incorrect") EXCEPT
                           !.user = u, !.invoked = TRUE]
            /\ UNCHANGED <<users, registered, exited>>
       ELSE /\ users' = [users EXCEPT ![u] =
                            preSaveUser([@ EXCEPT !.password = PlainPw(newPassword)], TRUE)]
            /\ registered' = [registered EXCEPT ![users[u].email] = ""]
            /\ resp' = [Answer("changePassword", 200, "Password changed successfully") EXCEPT
                           !.user = u, !.invoked = TRUE]
            /\ UNCHANGED exited
    /\ UNCHANGED <<refreshDocs, nextId, randCtr, now, ticks, issuedAccess, pwChanged,
                   inflight, rotated, returned, revoked, issuedReset>>
    /\ UNCHANGED <<clientVars, sideVars, orderVars, shopVars>>

deleteAccount(u) ==
    /\ ~exited
    /\ u \in Authenticated
    /\ users' = [users EXCEPT ![u] = NoUser]
    /\ registered' = [registered EXCEPT ![users[u].email] = ""]
    /\ resp' = [Answer("deleteAccount", 200, "Account deleted successfully") EXCEPT
                   !.user = u, !.invoked = TRUE]
    /\ UNCHANGED <<refreshDocs, nextId, randCtr, now, ticks, issuedAccess, pwChanged,
                   exited, inflight, rotated, returned, revoked, issuedReset>>
    /\ UNCHANGED <<clientVars, sideVars, orderVars, shopVars>>

-----------------------------------------------------------------------------
(* Environment *)

Tick(d) ==
    /\ ticks < MaxTicks
    /\ now' = now + d
    /\ ticks' = ticks + 1
    /\ UNCHANGED <<users, refreshDocs, nextId, randCtr, resp, registered, issuedAccess,
                   pwChanged, exited, inflight, rotated, returned, revoked, issuedReset>>
    /\ UNCHANGED <<clientVars, sideVars, orderVars, shopVars>>

\* The TTL index on RefreshToken.expiresAt (expireAfterSeconds: 0): MongoDB
\* removes the documents whose expiresAt has passed, some time after it has.
ttlMonitor ==
    /\ \E d \in refreshDocs : d.expiresAt <= now
    /\ refreshDocs' = {d \in refreshDocs : d.expiresAt > now}
    /\ UNCHANGED <<users, nextId, randCtr, now, ticks, resp, registered, issuedAccess,
                   pwChanged, exited, inflight, rotated, returned, revoked, issuedReset>>
    /\ UNCHANGED <<clientVars, sideVars, orderVars, shopVars>>

\* The process is started again on the same database.
restart ==
    /\ exited
    /\ exited' = FALSE
    /\ inflight' = [k \in 1..MaxInflight |-> Idle]
    /\ UNCHANGED <<users, refreshDocs, nextId, randCtr, now, ticks, resp, registered,
                   issuedAccess, pwChanged, rotated, returned, revoked, issuedReset>>
    /\ UNCHANGED <<clientVars, sideVars, orderVars, shopVars>>

-----------------------------------------------------------------------------
(* The shop's collections *)

\* The products, in the order a cart lists them.
ProductSeq == <<"p1", "p2">>

Products == {ProductSeq[i] : i \in 1..Len(ProductSeq)}

\* usageLimit of the stored coupon.
UsageLimit == 1

\* couponSchema, with the expiresAt path the controllers query.  A
\* maxDiscountAmount of 0 is a coupon without one.
NoCoupon ==
    [code |-> "", isActive |-> FALSE, expiresAt |-> 0, validFrom |-> 0, validUntil |-> 0,
     discountType |-> "fixed", discountValue |-> 0, minOrderAmount |-> 0,
     maxDiscountAmount |-> 0, usageLimit |-> 1, usedCount |-> 0]

\* Ten percent off, valid for a week, for UsageLimit orders.
Save10 ==
    [NoCoupon EXCEPT !.code = "SAVE10", !.isActive = TRUE, !.expiresAt = RefreshDocTTL,
                     !.validUntil = RefreshDocTTL, !.discountType = "percentage",
                     !.discountValue = 10, !.usageLimit = UsageLimit]

\* Every createOrder request stores at most one order.
MaxRequests == 2

OrderIds == 1..MaxRequests

\* No answer yet from the cart, catalogue and order-administration handlers.
NoReply ==
    [op |-> "", status |-> 0, message |-> "", user |-> 0, order |-> 0, target |-> "",
     before |-> "", after |-> "", product |-> "", found |-> {}, subtotal |-> 0, discount |-> 0,
     total |-> 0, quantity |-> 0, variant |-> [given |-> FALSE, id |-> "", price |-> 0],
     line |-> 0, linesBefore |-> 0]

\* A cancelOrder request that is not running.
NoCancel ==
    [pc |-> "idle", order |-> 0, todo |-> <<>>, status |-> 0, message |-> "", count |-> 0]

\* A createOrder request that is not running.
NoRequest ==
    [pc |-> "idle", user |-> 0, method |-> "", items |-> [p \in Products |-> 0],
     seen |-> [p \in Products |-> 0], couponCode |-> "", subtotal |-> 0,
     discount |-> 0, total |-> 0, paid |-> FALSE, couponed |-> FALSE,
     saved |-> FALSE, decs |-> [p \in Products |-> 0], todo |-> <<>>,
     failedAt |-> "", status |-> 0, message |-> "", lines |-> <<>>, order |-> 0,
     couponRead |-> NoCoupon]

\* CartItemSchema: a line of a cart.  variantId "" is a line without variant.
CartLine(id, p, v, n, price, total) ==
    [id |-> id, productId |-> p, variantId |-> v, quantity |-> n,
     price |-> price, total |-> total]

EmptyCart == [lines |-> <<>>, couponCode |-> "", subtotal |-> 0]

\* An empty shop: nothing for sale, no carts, no orders.
NoShop ==
    /\ products = [p \in Products |-> [stock |-> 0, inventory |-> 0, price |-> 0,
                                        category |-> "", isActive |-> FALSE]]
    /\ stock0 = [p \in Products |-> 0]
    /\ carts = [u \in UserIds |-> EmptyCart]
    /\ coupon = NoCoupon
    /\ charged = 0
    /\ orders = <<>>
    /\ req = [k \in UserIds |-> NoRequest]
    /\ started = 0
    /\ totalDec = [p \in Products |-> 0]
    /\ deducted = [n \in OrderIds |-> [p \in Products |-> 0]]
    /\ reply = NoReply
    /\ cancelReq = [k \in UserIds |-> NoCancel]
    /\ restored = [n \in OrderIds |-> [p \in Products |-> 0]]
    /\ nextLine = 1
    /\ signup = [k \in 1..MaxInflight |-> NoSignup]
    /\ trail = [p \in Products |-> "live"]

\* The requests the frontend has in flight at most.
MaxCalls == 2

\* An ApiClient request that was not sent yet.  retry is config._retry, sent
\* the refresh token posted to /auth/refresh-token, tokens the answer to it.
NoCall ==
    [pc |-> "idle", retry |-> FALSE, sent |-> NoToken, status |-> 0,
     tokens |-> [status |-> 0, accessToken |-> NoToken, refreshToken |-> NoToken],
     refreshes |-> 0, retries |-> 0]

\* The SessionService calls in flight at most.
MaxSessionOps == 2

\* No value under the session key.
NoSession == [exists |-> FALSE, userId |-> 0, note |-> "", lastActivity |-> 0, expiresAt |-> 0]

\* The time to live of a session key, in hours.
SessionTTL == 24

\* The value createSession stored for user 1 at hour 0.
StoredSession ==
    [exists |-> TRUE, userId |-> 1, note |-> "", lastActivity |-> 0, expiresAt |-> SessionTTL]

\* A SessionService call that is not running.
NoSessionOp == [pc |-> "idle", op |-> "", read |-> NoSession, note |-> "", result |-> NoSession,
                afterDestroy |-> FALSE]

\* The ProductService calls in flight at most.
MaxCacheOps == 2

\* seo.slug of the products, as the segments the string is made of: the
\* first slug does not contain the product's id, the second does.
slugOf(p) == IF p = "p1" THEN <<"mug">> ELSE <<"cup", "-", p>>

\* `product:slug:${slug}`
slugKey(slug) == <<"product", ":", "slug", ":">> \o slug

\* `products:${JSON.stringify(filters)}:${page}:${limit}` for getProducts().
listKey == <<"products", ":", "{}", ":", "1", ":", "20">>

\* The cache keys of the model.
CacheKeys == {slugKey(slugOf(p)) : p \in Products} \cup {listKey}

\* What a result or a cache entry tells about a product.
StockView(doc) == [quantity |-> doc.quantity, stockStatus |-> doc.stockStatus]

\* No entry under a cache key, and no result (null).
NoEntry == [exists |-> FALSE, shown |-> <<>>]

\* A ProductService call that is not running.
NoCacheOp == [pc |-> "idle", op |-> "", key |-> <<>>, product |-> "", quantity |-> 0,
              keys |-> {}, read |-> NoEntry, result |-> NoEntry, afterUpdate |-> {}]

\* The cart store actions in flight at most.
MaxStoreOps == 2

\* A cart store action that is not running.
NoStoreOp == [pc |-> "idle", action |-> "", outcome |-> ""]

\* What the services and the frontend hold at start: no request in flight, one
\* stored session, one piece of each product in stock, an empty cache.
NoSide ==
    /\ apiCalls = [k \in 1..MaxCalls |-> NoCall]
    /\ session = StoredSession
    /\ sessionOps = [k \in 1..MaxSessionOps |-> NoSessionOp]
    /\ destroyed = FALSE
    /\ stocked = [p \in Products |-> [quantity |-> 1, stockStatus |-> "in_stock"]]
    /\ cache = [key \in CacheKeys |-> NoEntry]
    /\ cacheOps = [k \in 1..MaxCacheOps |-> NoCacheOp]
    /\ updatedTo = [p \in Products |-> -1]
    /\ storeCart = "null"
    /\ isLoading = FALSE
    /\ storeOps = [k \in 1..MaxStoreOps |-> NoStoreOp]

-----------------------------------------------------------------------------
(* The authentication subsystem *)

\* User 1 is stored before start-up, its password the bcrypt hash
\* of the schema; the other ids are free.
SeedUser(role, active) ==
    [NewUser("a@shop.io", bcryptHash(PlainPw("Passw0rd!"))) EXCEPT
        !.role = role, !.isActive = active]

\* The session documents a login of user 1 at hour 0 stores.
SeedSession == loginIssue({}, 1, 1, 0)

\* What a fresh process holds, whatever the database does.
InitProcess ==
    /\ randCtr = 0
    /\ now = 0
    /\ ticks = 0
    /\ resp = BaseResp
    /\ registered = [e \in Emails |-> ""]
    /\ issuedAccess = {}
    /\ pwChanged = {}
    /\ exited = FALSE
    /\ inflight = [k \in 1..MaxInflight |-> Idle]
    /\ rotated = {}
    /\ revoked = {}
    /\ issuedReset = {}

InitServer ==
    /\ \E role \in {"customer", "admin"}, active \in BOOLEAN :
          users = [u \in UserIds |-> IF u = 1 THEN SeedUser(role, active) ELSE NoUser]
    /\ \E seeded \in BOOLEAN :
          /\ refreshDocs = IF seeded THEN SeedSession.docs ELSE {}
          /\ nextId = IF seeded THEN SeedSession.nextId ELSE 1
          /\ returned = IF seeded THEN {SeedSession.refreshToken} ELSE {}
    /\ InitProcess
    /\ NoShop

\* An empty User collection.
InitSignup ==
    /\ users = [u \in UserIds |-> NoUser]
    /\ refreshDocs = {}
    /\ nextId = 1
    /\ returned = {}
    /\ InitProcess
    /\ NoShop
    /\ clientAccess = NoToken
    /\ clientRefresh = NoToken
    /\ loggedOut = {}
    /\ NoSide

\* Overlapping register requests.
NextSignup ==
    \/ \E k \in 1..MaxInflight, e \in Emails, p \in Passwords : registerFind(k, e, p)
    \/ \E k \in 1..MaxInflight : registerSave(k)
    \/ \E k \in 1..MaxInflight : registerDone(k)

SpecSignup == InitSignup /\ [][NextSignup]_vars

\* No browser client takes part.
InitAuth ==
    /\ InitServer
    /\ clientAccess = NoToken
    /\ clientRefresh = NoToken
    /\ loggedOut = {}
    /\ NoSide

RefreshInputs == returned \cup {NoToken, Garbage}

\* Requests through the middleware chains of the product and order routers.
NextGate ==
    \/ \E r \in RouteNames, h \in Headers, v \in BOOLEAN, l \in BOOLEAN : routeRequest(r, h, v, l)
    \/ \E h \in Headers : authenticate(h)
    \/ \E d \in TickSteps : Tick(d)

SpecGate == InitAuth /\ [][NextGate]_vars

\* Registration and login, and the requests that carry the tokens they issue.
NextLogin ==
    \/ \E e \in Emails, p \in Passwords : register(e, p)
    \/ \E e \in Emails, p \in Passwords : login(e, p)
    \/ \E tk \in RefreshInputs : refreshFind(1, tk)
    \/ refreshIssue(1)
    \/ \E h \in Headers : authenticate(h)

SpecLogin == InitAuth /\ [][NextLogin]_vars

\* Refresh-token rotation with requests in flight at the same time.
SessionHeaders == {NoHeader} \cup {Header("bearer", tk) : tk \in IdTokens}

NextSession ==
    \/ \E k \in 1..MaxInflight, tk \in RefreshInputs : refreshFind(k, tk)
    \/ \E k \in 1..MaxInflight : refreshIssue(k)
    \/ \E h \in SessionHeaders, tk \in returned \cup {NoToken} : logout(h, tk)
    \/ \E u \in UserIds : deleteAccount(u)
    \/ \E d \in TickSteps : Tick(d)
    \/ ttlMonitor

SpecSession == InitAuth /\ [][NextSession]_vars

\* Password reset.
NextReset ==
    \/ \E e \in Emails, p \in Passwords : register(e, p)
    \/ \E e \in Emails : forgotPassword(e)
    \/ \E tk \in ResetInputs, p \in Passwords : resetPassword(tk, p)
    \/ \E d \in TickSteps : Tick(d)

SpecReset == InitAuth /\ [][NextReset]_vars

\* The profile handlers of userController and the process around them.
NextUsers ==
    \/ \E e \in Emails, p \in Passwords : register(e, p)
    \/ \E e \in Emails, p \in Passwords : login(e, p)
    \/ \E u \in UserIds, e \in Emails \cup {""} : updateProfile(u, e)
    \/ \E u \in UserIds, c \in Passwords, n \in Passwords : changePassword(u, c, n)
    \/ \E u \in UserIds : deleteAccount(u)
    \/ restart

SpecUsers == InitAuth /\ [][NextUsers]_vars

-----------------------------------------------------------------------------
(* The frontend: ApiClient and authApi *)

\* Request interceptor: Authorization is set only when an access token is held.
clientHeader(access) ==
    IF access = NoToken THEN NoHeader ELSE Header("bearer", access)

\* POST /auth/refresh-token served in one piece.
refreshRequest(D, nid, U, token, t) ==
    LET l == refreshLookup(D, U, token, t) IN
    IF l.status # 0
    THEN [status |-> l.status, docs |-> D \ l.drop, nextId |-> nid, uid |-> 0,
          accessToken |-> NoToken, refreshToken |-> NoToken]
    ELSE LET g == generateTokens(D, nid, l.uid, t) IN
         [status |-> 200,
          docs |-> saveTokenDoc(g.docs, l.doc, g.refreshToken, t + RefreshDocTTL),
          nextId |-> g.nextId, uid |-> l.uid,
          accessToken |-> g.accessToken, refreshToken |-> g.refreshToken]

\* A request to a route behind authenticateToken, sent through ApiClient: on
\* 401 the response interceptor calls refreshAccessToken once and repeats the
\* request with the new access token.
clientCall(access, refresh, D, nid, U, t) ==
    LET a1 == authenticateToken(clientHeader(access), U, t) IN
    IF a1.calls[1] = 0
    THEN [status |-> 200, access |-> access, refresh |-> refresh, docs |-> D,
          nextId |-> nid, refreshed |-> FALSE, uid |-> a1.user]
    ELSE IF refresh = NoToken          \* refreshAccessToken returns null
    THEN [status |-> 401, access |-> access, refresh |-> refresh, docs |-> D,
          nextId |-> nid, refreshed |-> FALSE, uid |-> 0]
    ELSE LET r == refreshRequest(D, nid, U, refresh, t) IN
         IF r.status # 200             \* clearTokens in refreshAccessToken
         THEN [status |-> 401, access |-> NoToken, refresh |-> NoToken, docs |-> r.docs,
               nextId |-> nid, refreshed |-> FALSE, uid |-> 0]
         ELSE LET a2 == authenticateToken(clientHeader(r.accessToken), U, t) IN
              [status |-> IF a2.calls[1] = 0 THEN 200 ELSE 401,
               access |-> r.accessToken, refresh |-> r.refreshToken, docs |-> r.docs,
               nextId |-> r.nextId, refreshed |-> TRUE, uid |-> r.uid]

\* What one clientCall leaves on the server.
clientCallEffects(c) ==
    /\ refreshDocs' = c.docs
    /\ nextId' = c.nextId
    /\ issuedAccess' = IF c.refreshed
                       THEN issuedAccess \cup {[token |-> c.access, user |-> c.uid]}
                       ELSE issuedAccess
    /\ returned' = IF c.refreshed THEN returned \cup {c.refresh} ELSE returned
    /\ rotated' = IF c.refreshed THEN rotated \cup {clientRefresh} ELSE rotated
    /\ UNCHANGED <<users, randCtr, now, ticks, registered, pwChanged, exited,
                   inflight, revoked, issuedReset>>

\* authApi.logout(): apiClient.post("/auth/logout") without a body, then
\* clearAuth() whether the request succeeded or not.  The logout controller
\* finds no refreshToken in req.body and deletes nothing.
authApiLogout ==
    /\ ~exited
    /\ nextId <= MaxDocs
    /\ clientAccess # NoToken \/ clientRefresh # NoToken
    /\ LET c == clientCall(clientAccess, clientRefresh, refreshDocs, nextId, users, now) IN
       /\ clientCallEffects(c)
       /\ resp' = [Answer("authApi.logout", c.status, "") EXCEPT
                      !.token = clientRefresh, !.refreshToken = c.refresh,
                      !.hdr = clientHeader(clientAccess)]
       /\ loggedOut' = loggedOut \cup ({clientRefresh, c.refresh} \ {NoToken})
    /\ clientAccess' = NoToken
    /\ clientRefresh' = NoToken
    /\ UNCHANGED <<orderVars, shopVars, sideVars>>

\* Any other request of the client to a route behind authenticateToken.
apiClientRequest ==
    /\ ~exited
    /\ nextId <= MaxDocs
    /\ LET c == clientCall(clientAccess, clientRefresh, refreshDocs, nextId, users, now) IN
       /\ clientCallEffects(c)
       /\ resp' = [Answer("apiClient", c.status, "") EXCEPT
                      !.token = clientRefresh, !.refreshToken = c.refresh,
                      !.hdr = clientHeader(clientAccess)]
       /\ clientAccess' = c.access
       /\ clientRefresh' = c.refresh
    /\ UNCHANGED loggedOut
    /\ UNCHANGED <<orderVars, shopVars, sideVars>>

\* loadTokensFromStorage: the client starts with the tokens of a stored session
\* in localStorage, or with none.
InitClient ==
    /\ InitServer
    /\ \E held \in BOOLEAN :
          /\ clientRefresh = IF held /\ returned # {} THEN SeedSession.refreshToken ELSE NoToken
          /\ clientAccess = IF held /\ returned # {} THEN SeedSession.accessToken ELSE NoToken
    /\ loggedOut = {}
    /\ NoSide

NextClient ==
    \/ authApiLogout
    \/ apiClientRequest
    \/ \E tk \in RefreshInputs : refreshFind(1, tk)
    \/ refreshIssue(1)
    \/ \E u \in UserIds : deleteAccount(u)
    \/ \E d \in TickSteps : Tick(d)
    \/ ttlMonitor

SpecClient == InitClient /\ [][NextClient]_vars

-----------------------------------------------------------------------------
(* Order controller: createOrder, one action per awaited call *)

PayMethods == {"card", "cash_on_delivery"}

RECURSIVE SumOver(_, _)
SumOver(f, S) ==
    IF S = {} THEN 0
    ELSE LET x == CHOOSE y \in S : TRUE IN f[x] + SumOver(f, S \ {x})

Min(a, b) == IF a < b THEN a ELSE b

\* Lines 113-121: the order's items, one for each line of the cart.
orderItems(lines, P) ==
    [i \in DOMAIN lines |->
        [productId |-> lines[i].productId, quantity |-> lines[i].quantity,
         price |-> P[lines[i].productId].price]]

\* The quantity a cart holds of each product, over all its lines.
lineQty(lines) ==
    [p \in Products |->
        SumOver([i \in DOMAIN lines |-> IF lines[i].productId = p
                                        THEN lines[i].quantity ELSE 0], DOMAIN lines)]

\* Lines 40-62: the products with a line that fails the availability test.
stockErrors(lines, P) ==
    {lines[i].productId : i \in
        {j \in DOMAIN lines : \/ ~P[lines[j].productId].isActive
                              \/ P[lines[j].productId].stock < lines[j].quantity}}

\* Lines 44-62: the subtotal over the lines that pass, at the product's price.
cartSubtotal(lines, P) ==
    SumOver([i \in DOMAIN lines |->
                IF lines[i].productId \in stockErrors(lines, P) THEN 0
                ELSE P[lines[i].productId].price * lines[i].quantity], DOMAIN lines)

\* Lines 83-91: the discount of a coupon on a subtotal.
couponDiscount(c, subtotal) ==
    LET d == IF c.discountType = "percentage" THEN (subtotal * c.discountValue) \div 100
             ELSE IF c.discountType = "fixed" THEN Min(c.discountValue, subtotal)
             ELSE 0 IN
    IF c.maxDiscountAmount # 0 /\ d > c.maxDiscountAmount THEN c.maxDiscountAmount ELSE d

\* Math.max
Max(a, b) == IF a > b THEN a ELSE b

\* orderUtils works on the amounts of the order; here they are carried in
\* cents, so that the tax and the shipping rates are whole numbers.
\* Lines 140-148 of Coupon.ts: isValid() at time t.
isValid(c, t) ==
    c.isActive /\ c.validFrom <= t /\ c.validUntil >= t /\ c.usedCount < c.usageLimit

Countries == {"US", "CA", "DE"}

\* orderUtils.calculateShipping, in cents.
calculateShipping(subtotal, country) ==
    IF subtotal >= 5000 THEN 0
    ELSE IF country = "US" THEN 599
    ELSE IF country = "CA" THEN 899
    ELSE 1299

\* orderUtils.calculateDiscount, in cents.
calculateDiscount(subtotal, c, t) ==
    IF ~isValid(c, t) THEN 0
    ELSE IF subtotal < 100 * c.minOrderAmount THEN 0
    ELSE LET d == IF c.discountType = "percentage"
                  THEN (subtotal * c.discountValue) \div 100
                  ELSE IF c.discountType = "fixed" THEN 100 * c.discountValue
                  ELSE 0 IN
         IF c.maxDiscountAmount # 0 /\ d > 100 * c.maxDiscountAmount
         THEN 100 * c.maxDiscountAmount ELSE d

\* orderUtils.calculateOrderTotal, in cents.  hasCoupon: a coupon is passed.
calculateOrderTotal(items, hasCoupon, c, country, t) ==
    LET subtotal == SumOver([i \in DOMAIN items |->
                                100 * items[i].price * items[i].quantity], DOMAIN items)
        tax == (subtotal * 8) \div 100
        shipping == calculateShipping(subtotal, country)
        discount == IF hasCoupon /\ isValid(c, t)
                    THEN calculateDiscount(subtotal, c, t) ELSE 0 IN
    [subtotal |-> subtotal, tax |-> tax, shipping |-> shipping, discount |-> discount,
     total |-> Max(0, subtotal + tax + shipping - discount)]

\* The catch block with a compensation: the stock the request took is put back.
createOrderCatch_restock(P, q) ==
    [p \in Products |-> [P[p] EXCEPT !.stock = @ + q.decs[p]]]

\* Lines 227-233: the catch block logs and answers 500; the Product collection
\* stays as the request left it.
createOrderCatch(P, q) == P

\* The request of customer k ends in the catch block.
orderFails(k, at) ==
    /\ req' = [req EXCEPT ![k].pc = "done", ![k].status = 500,
                          ![k].message = "Internal server error", ![k].failedAt = at]
    /\ products' = createOrderCatch(products, req[k])

\* Product.findByIdAndUpdate(id, {$inc: {stock: -n}}) applied only while the
\* stock covers n.
decrementStock_guarded(P, p, n) ==
    IF P[p].stock >= n THEN [P EXCEPT ![p].stock = @ - n] ELSE P

\* Product.findByIdAndUpdate(product._id, { $inc: { stock: -item.quantity } })
decrementStock(P, p, n) == [P EXCEPT ![p].stock = @ - n]

\* Lines 24-70: read the cart with its products, test availability.  A request
\* is named by the customer who sent it; a customer sends one at a time.
orderCheck(u, method) ==
    /\ req[u].pc \in {"idle", "done"}
    /\ started < MaxRequests
    /\ u \in Authenticated
    /\ started' = started + 1
    /\ LET cart == carts[u]
           q == [NoRequest EXCEPT !.user = u, !.method = method, !.items = lineQty(cart.lines),
                                  !.lines = orderItems(cart.lines, products),
                                  !.seen = [p \in Products |-> products[p].stock],
                                  !.couponCode = cart.couponCode] IN
       IF cart.lines = <<>>
       THEN req' = [req EXCEPT ![u] = [q EXCEPT !.pc = "done", !.status = 400,
                                                !.message = "Cart is empty"]]
       ELSE IF stockErrors(cart.lines, products) # {}
       THEN req' = [req EXCEPT ![u] = [q EXCEPT !.pc = "done", !.status = 400,
                                                !.message = "Stock validation failed"]]
       ELSE req' = [req EXCEPT ![u] = [q EXCEPT !.pc = "coupon",
                                                !.subtotal = cartSubtotal(cart.lines, products)]]
    /\ UNCHANGED <<products, stock0, carts, coupon, charged, orders, totalDec, deducted>>
    /\ UNCHANGED <<authVars, clientVars, sideVars, shopVars>>

\* Lines 72-137: the coupon, the total, the Order document (not saved yet).
orderCoupon(k) ==
    /\ req[k].pc = "coupon"
    /\ LET q == req[k]
           \* Coupon.findOne({code, isActive: true, expiresAt: {$gt: new Date()}})
           applies == /\ q.couponCode # ""
                      /\ q.couponCode = coupon.code
                      /\ coupon.isActive
                      /\ coupon.expiresAt > now
           d == IF applies THEN couponDiscount(coupon, q.subtotal) ELSE 0 IN
       /\ coupon' = IF applies THEN [coupon EXCEPT !.usedCount = @ + 1] ELSE coupon
       /\ req' = [req EXCEPT ![k].discount = d, ![k].total = q.subtotal - d,
                             ![k].couponed = applies,
                             ![k].couponRead = IF applies THEN coupon ELSE NoCoupon,
                             ![k].pc = IF q.method = "cash_on_delivery" THEN "save" ELSE "pay"]
    /\ UNCHANGED <<products, stock0, carts, charged, orders, started, totalDec, deducted>>
    /\ UNCHANGED <<authVars, clientVars, sideVars, shopVars>>

\* A test that lets every payment intent through.
paymentAccepted_any(intent) == TRUE

\* Line 148: paymentIntent && paymentIntent.status === "succeeded"
paymentAccepted(intent) == intent = "succeeded"

\* Lines 140-165: paymentUtils.processPayment and what the handler makes of it.
\* outcome: the status of the confirmed payment intent, or "throw".
orderPay(k, outcome) ==
    /\ req[k].pc = "pay"
    /\ CASE outcome # "throw" /\ paymentAccepted(outcome) ->
              /\ charged' = IF outcome = "succeeded" THEN charged + 1 ELSE charged
              /\ req' = [req EXCEPT ![k].paid = (outcome = "succeeded"), ![k].pc = "save"]
         [] outcome # "throw" ->
              /\ req' = [req EXCEPT ![k].pc = "done", ![k].status = 400,
                                    ![k].message = "Payment processing failed"]
              /\ UNCHANGED charged
         [] OTHER ->
              /\ req' = [req EXCEPT ![k].pc = "done", ![k].status = 500,
                                    ![k].message = "Payment processing failed"]
              /\ UNCHANGED charged
    /\ UNCHANGED <<products, stock0, carts, coupon, orders, started, totalDec, deducted>>
    /\ UNCHANGED <<authVars, clientVars, sideVars, shopVars>>

\* Line 167: order.save().  ok: the call resolves.
orderSave(k, ok) ==
    /\ req[k].pc = "save"
    /\ IF ok
       THEN /\ orders' = Append(orders, [user |-> req[k].user, items |-> req[k].lines,
                                          total |-> req[k].total, paid |-> req[k].paid,
                                          status |-> "pending"])
            /\ req' = [req EXCEPT ![k].saved = TRUE, ![k].pc = "stock",
                                  ![k].order = Len(orders) + 1,
                                  ![k].todo = req[k].lines]
            /\ UNCHANGED products
       ELSE /\ orderFails(k, "save")
            /\ UNCHANGED orders
    /\ UNCHANGED <<stock0, carts, coupon, charged, started, totalDec, deducted>>
    /\ UNCHANGED <<authVars, clientVars, sideVars, shopVars>>

\* Lines 170-175: one turn of the stock loop.
orderDecrement(k, ok) ==
    /\ req[k].pc = "stock"
    /\ IF req[k].todo = <<>>
       THEN /\ req' = [req EXCEPT ![k].pc = "clear"]
            /\ UNCHANGED <<products, totalDec, deducted>>
       ELSE LET p == Head(req[k].todo).productId
                n == Head(req[k].todo).quantity
                taken == products[p].stock - products'[p].stock IN
            IF ok
            THEN /\ products' = decrementStock(products, p, n)
                 /\ totalDec' = [totalDec EXCEPT ![p] = @ + taken]
                 /\ deducted' = [deducted EXCEPT ![req[k].order][p] = @ + taken]
                 /\ req' = [req EXCEPT ![k].todo = Tail(@), ![k].decs[p] = @ + taken]
            ELSE /\ orderFails(k, "stock")
                 /\ UNCHANGED <<totalDec, deducted>>
    /\ UNCHANGED <<stock0, carts, coupon, charged, orders, started>>
    /\ UNCHANGED <<authVars, clientVars, sideVars, shopVars>>

\* Lines 178-180: empty the cart that was read and save it.
orderClear(k, ok) ==
    /\ req[k].pc = "clear"
    /\ IF ok
       THEN /\ carts' = [carts EXCEPT ![req[k].user] = EmptyCart]
            /\ req' = [req EXCEPT ![k].pc = "email"]
            /\ UNCHANGED products
       ELSE /\ orderFails(k, "clear")
            /\ UNCHANGED carts
    /\ UNCHANGED <<stock0, coupon, charged, orders, started, totalDec, deducted>>
    /\ UNCHANGED <<authVars, clientVars, sideVars, shopVars>>

\* Lines 183-226: the confirmation email, then the 201 answer.
orderEmail(k, ok) ==
    /\ req[k].pc = "email"
    /\ IF ok \/ findById(users, req[k].user) = 0
       THEN /\ req' = [req EXCEPT ![k].pc = "done", ![k].status = 201,
                                  ![k].message = "Order created successfully"]
            /\ UNCHANGED products
       ELSE orderFails(k, "email")
    /\ UNCHANGED <<stock0, carts, coupon, charged, orders, started, totalDec, deducted>>
    /\ UNCHANGED <<authVars, clientVars, sideVars, shopVars>>

\* Stored accounts without sessions; roles gives each account its role.
Accounts(roles) ==
    /\ users = [u \in UserIds |->
                   [SeedUser(roles[u], TRUE) EXCEPT
                       !.email = IF u = 1 THEN "a@shop.io" ELSE "b@shop.io"]]
    /\ refreshDocs = {}
    /\ nextId = 1
    /\ returned = {}
    /\ InitProcess
    /\ clientAccess = NoToken
    /\ clientRefresh = NoToken
    /\ loggedOut = {}
    /\ NoSide

\* Filled carts (the first with two lines and a coupon code), the coupon c, and
\* stock for sale.
ShopWith(c) ==
    /\ \E s1 \in 1..2 :
          /\ products = [p \in Products |->
                            [stock |-> IF p = "p1" THEN s1 ELSE 1,
                             inventory |-> IF p = "p1" THEN s1 ELSE 1,
                             price |-> IF p = "p1" THEN 20 ELSE 30,
                             category |-> IF p = "p1" THEN "toys" ELSE "books",
                             isActive |-> TRUE]]
          /\ stock0 = [p \in Products |-> IF p = "p1" THEN s1 ELSE 1]
    /\ carts = [u \in UserIds |->
                   [lines |-> IF u = 1
                              THEN <<CartLine(1, "p1", "", 1, 20, 20),
                                     CartLine(2, "p2", "", 1, 30, 30)>>
                              ELSE <<CartLine(u + 1, "p1", "", 1, 20, 20)>>,
                    couponCode |-> IF u = 1 THEN "SAVE10" ELSE "",
                    subtotal |-> IF u = 1 THEN 50 ELSE 20]]
    /\ coupon = c
    /\ charged = 0
    /\ orders = <<>>
    /\ req = [k \in UserIds |-> NoRequest]
    /\ started = 0
    /\ totalDec = [p \in Products |-> 0]
    /\ deducted = [n \in OrderIds |-> [p \in Products |-> 0]]
    /\ reply = NoReply
    /\ cancelReq = [k \in UserIds |-> NoCancel]
    /\ restored = [n \in OrderIds |-> [p \in Products |-> 0]]
    /\ nextLine = MaxUsers + 2
    /\ signup = [k \in 1..MaxInflight |-> NoSignup]
    /\ trail = [p \in Products |-> "live"]

StockedShop == ShopWith(Save10)

\* Customers with filled carts.
InitOrder == Accounts([u \in UserIds |-> "customer"]) /\ StockedShop

NextOrder ==
    \/ \E u \in UserIds, m \in PayMethods : orderCheck(u, m)
    \/ \E k \in UserIds : orderCoupon(k)
    \/ \E k \in UserIds, o \in {"succeeded", "requires_action", "throw"} : orderPay(k, o)
    \/ \E k \in UserIds, ok \in BOOLEAN : orderSave(k, ok)
    \/ \E k \in UserIds, ok \in BOOLEAN : orderDecrement(k, ok)
    \/ \E k \in UserIds, ok \in BOOLEAN : orderClear(k, ok)
    \/ \E k \in UserIds, ok \in BOOLEAN : orderEmail(k, ok)

SpecOrder == InitOrder /\ [][NextOrder]_vars

-----------------------------------------------------------------------------
(* Order administration and cancellation: src/unnamed/part_012 *)

MaxCancels == 2

\* updateOrderStatusValidation: body("status").isIn([...])
StatusWhitelist == {"pending", "processing", "shipped", "delivered", "cancelled"}

\* OrderSchema.status enum
OrderStatuses == StatusWhitelist \cup {"confirmed", "refunded"}

\* The accounts that pass authenticateToken and authorize("admin").
Admins == {a \in Authenticated : users[a].role = "admin"}

Reply(op, status, message) ==
    [NoReply EXCEPT !.op = op, !.status = status, !.message = message]

\* An assignment that only moves an order forward along
\* pending, processing, shipped, delivered.
writeStatus_forwardOnly(order, status) ==
    LET rank == [x \in OrderStatuses |->
                    CASE x = "pending" -> 1 [] x = "confirmed" -> 2
                      [] x = "processing" -> 3 [] x = "shipped" -> 4
                      [] x = "delivered" -> 5 [] OTHER -> 6] IN
    IF rank[status] >= rank[order.status] /\ rank[order.status] < 5
    THEN [order EXCEPT !.status = status] ELSE order

\* Lines 557-570: order.status = status; order.save()
writeStatus(order, status) == [order EXCEPT !.status = status]

\* PUT /admin/:id/status.  n: the order of the path (0: an id no order has);
\* emailOk: the status email is sent without an error.
updateOrderStatus(a, n, status, emailOk) ==
    /\ a \in Admins
    /\ IF status \notin StatusWhitelist
       THEN \* validate -> createError(..., 400) -> errorHandler
            /\ reply' = [Reply("updateOrderStatus", 400, "Invalid order status")
                            EXCEPT !.user = a, !.order = n, !.target = status,
                                   !.before = IF n \in DOMAIN orders
                                              THEN orders[n].status ELSE "",
                                   !.after = IF n \in DOMAIN orders
                                             THEN orders[n].status ELSE ""]
            /\ UNCHANGED orders
       ELSE IF n \notin DOMAIN orders
       THEN /\ reply' = [Reply("updateOrderStatus", 404, "Order not found")
                            EXCEPT !.user = a, !.order = n, !.target = status]
            /\ UNCHANGED orders
       ELSE /\ orders' = [orders EXCEPT ![n] = writeStatus(@, status)]
            /\ reply' = [(IF emailOk
                          THEN Reply("updateOrderStatus", 200,
                                     "Order status updated successfully")
                          ELSE Reply("updateOrderStatus", 500, "Internal server error"))
                            EXCEPT !.user = a, !.order = n, !.target = status,
                                   !.before = orders[n].status,
                                   !.after = orders'[n].status]
    /\ UNCHANGED <<products, stock0, carts, coupon, charged, req, started, totalDec,
                   deducted, cancelReq, restored, nextLine, signup, trail>>
    /\ UNCHANGED <<authVars, clientVars, sideVars>>

\* Lines 342-367: find the caller's order and test its status.
cancelFind(u, n) ==
    /\ cancelReq[u].pc \in {"idle", "done"}
    /\ SumOver([k \in UserIds |-> cancelReq[k].count], UserIds) < MaxCancels
    /\ u \in Authenticated
    /\ LET c == [NoCancel EXCEPT !.order = n, !.count = cancelReq[u].count + 1] IN
       IF n \notin DOMAIN orders \/ orders[n].user # u
       THEN cancelReq' = [cancelReq EXCEPT ![u] =
                [c EXCEPT !.pc = "done", !.status = 404, !.message = "Order not found"]]
       ELSE IF orders[n].status \in {"shipped", "delivered"}
       THEN cancelReq' = [cancelReq EXCEPT ![u] =
                [c EXCEPT !.pc = "done", !.status = 400,
                          !.message = "Order cannot be cancelled as it has already been shipped or delivered"]]
       ELSE IF orders[n].status = "cancelled"
       THEN cancelReq' = [cancelReq EXCEPT ![u] =
                [c EXCEPT !.pc = "done", !.status = 400,
                          !.message = "Order is already cancelled"]]
       ELSE cancelReq' = [cancelReq EXCEPT ![u] =
                [c EXCEPT !.pc = "save", !.todo = orders[n].items]]
    /\ UNCHANGED <<orderVars, reply, restored, nextLine, signup, trail>>
    /\ UNCHANGED <<authVars, clientVars, sideVars>>

\* Lines 411-417: the catch block of cancelOrder.
cancelFails(k) ==
    cancelReq' = [cancelReq EXCEPT ![k].pc = "done", ![k].status = 500,
                                   ![k].message = "Internal server error"]

\* Lines 369-372: order.status = "cancelled"; order.save()
cancelSave(k, ok) ==
    /\ cancelReq[k].pc = "save"
    /\ IF ok
       THEN /\ orders' = [orders EXCEPT ![cancelReq[k].order] = writeStatus(@, "cancelled")]
            /\ cancelReq' = [cancelReq EXCEPT ![k].pc = "restore"]
       ELSE /\ cancelFails(k)
            /\ UNCHANGED orders
    /\ UNCHANGED <<products, stock0, carts, coupon, charged, req, started, totalDec,
                   deducted, reply, restored, nextLine, signup, trail>>
    /\ UNCHANGED <<authVars, clientVars, sideVars>>

\* Lines 375-379: one turn of the loop that puts the stock back.
cancelRestore(k, ok) ==
    /\ cancelReq[k].pc = "restore"
    /\ IF cancelReq[k].todo = <<>>
       THEN /\ cancelReq' = [cancelReq EXCEPT ![k].pc = "email"]
            /\ UNCHANGED <<products, restored>>
       ELSE LET item == Head(cancelReq[k].todo) IN
            IF ok
            THEN /\ products' = [products EXCEPT ![item.productId].stock = @ + item.quantity]
                 /\ restored' = [restored EXCEPT ![cancelReq[k].order][item.productId] =
                                                     @ + item.quantity]
                 /\ cancelReq' = [cancelReq EXCEPT ![k].todo = Tail(@)]
            ELSE /\ cancelFails(k)
                 /\ UNCHANGED <<products, restored>>
    /\ UNCHANGED <<stock0, carts, coupon, charged, orders, req, started, totalDec,
                   deducted, reply, nextLine, signup, trail>>
    /\ UNCHANGED <<authVars, clientVars, sideVars>>

\* Lines 382-410: the cancellation email, then the answer.
cancelEmail(k, ok) ==
    /\ cancelReq[k].pc = "email"
    /\ IF ok \/ findById(users, k) = 0
       THEN cancelReq' = [cancelReq EXCEPT ![k].pc = "done", ![k].status = 200,
                                           ![k].message = "Order cancelled successfully"]
       ELSE cancelFails(k)
    /\ UNCHANGED <<orderVars, reply, restored, nextLine, signup, trail>>
    /\ UNCHANGED <<authVars, clientVars, sideVars>>

\* Customers and an administrator (the last account), with filled carts.
InitFulfil ==
    /\ Accounts([u \in UserIds |-> IF u = MaxUsers THEN "admin" ELSE "customer"])
    /\ StockedShop

\* The first customer orders cash on delivery and cancels; the administrator
\* moves the orders between pending and shipped.
NextFulfil ==
    \/ orderCheck(1, "cash_on_delivery")
    \/ orderCoupon(1)
    \/ orderSave(1, TRUE)
    \/ orderDecrement(1, TRUE)
    \/ orderClear(1, TRUE)
    \/ orderEmail(1, TRUE)
    \/ \E a \in Admins, n \in DOMAIN orders, st \in {"pending", "shipped"} :
          updateOrderStatus(a, n, st, TRUE)
    \/ \E n \in DOMAIN orders : cancelFind(1, n)
    \/ cancelSave(1, TRUE)
    \/ cancelRestore(1, TRUE)
    \/ cancelEmail(1, TRUE)

SpecFulfil == InitFulfil /\ [][NextFulfil]_vars

\* The shop after the first customer's cash-on-delivery order was stored by an
\* earlier run of createOrder: both lines taken from the stock, the coupon
\* counted, the cart emptied.
InitAdmin ==
    /\ Accounts([u \in UserIds |-> IF u = MaxUsers THEN "admin" ELSE "customer"])
    /\ products = [p \in Products |->
                      [stock |-> IF p = "p1" THEN 1 ELSE 0,
                       inventory |-> IF p = "p1" THEN 2 ELSE 1,
                       price |-> IF p = "p1" THEN 20 ELSE 30,
                       category |-> IF p = "p1" THEN "toys" ELSE "books",
                       isActive |-> TRUE]]
    /\ stock0 = [p \in Products |-> IF p = "p1" THEN 2 ELSE 1]
    /\ carts = [u \in UserIds |->
                   IF u = 1 THEN EmptyCart
                   ELSE [lines |-> <<CartLine(u + 1, "p1", "", 1, 20, 20)>>,
                         couponCode |-> "", subtotal |-> 20]]
    /\ coupon = [Save10 EXCEPT !.usedCount = 1]
    /\ charged = 0
    /\ orders = <<[user |-> 1,
                   items |-> <<[productId |-> "p1", quantity |-> 1, price |-> 20],
                               [productId |-> "p2", quantity |-> 1, price |-> 30]>>,
                   total |-> 45, paid |-> FALSE, status |-> "pending"]>>
    /\ req = [k \in UserIds |-> NoRequest]
    /\ started = 0
    /\ totalDec = [p \in Products |-> 1]
    /\ deducted = [n \in OrderIds |-> [p \in Products |-> IF n = 1 THEN 1 ELSE 0]]
    /\ reply = NoReply
    /\ cancelReq = [k \in UserIds |-> NoCancel]
    /\ restored = [n \in OrderIds |-> [p \in Products |-> 0]]
    /\ nextLine = MaxUsers + 2
    /\ signup = [k \in 1..MaxInflight |-> NoSignup]
    /\ trail = [p \in Products |-> "live"]

NextAdmin ==
    \/ \E a \in Admins, n \in {0} \cup DOMAIN orders, st \in StatusWhitelist \cup {"refunded"},
          ok \in BOOLEAN : updateOrderStatus(a, n, st, ok)
    \/ \E u \in UserIds, n \in {0} \cup DOMAIN orders : cancelFind(u, n)
    \/ \E k \in UserIds, ok \in BOOLEAN : cancelSave(k, ok)
    \/ \E k \in UserIds, ok \in BOOLEAN : cancelRestore(k, ok)
    \/ \E k \in UserIds, ok \in BOOLEAN : cancelEmail(k, ok)

SpecAdmin == InitAdmin /\ [][NextAdmin]_vars

-----------------------------------------------------------------------------
(* The cart controller: src/backend/src/controllers/cartController.ts *)

\* The _id values cart lines are given.
MaxLines == 5

\* req.body.variant: absent, or an object with an _id and a price (0: none).
NoVariant == [given |-> FALSE, id |-> "", price |-> 0]

Variants ==
    {NoVariant, [given |-> TRUE, id |-> "", price |-> 0],
     [given |-> TRUE, id |-> "v1", price |-> 0], [given |-> TRUE, id |-> "v1", price |-> 25]}

\* JSON.stringify(variant): undefined for an absent variant.
jsonStringify(v) ==
    IF ~v.given THEN "undefined"
    ELSE "{" \o v.id \o ":" \o ToString(v.price) \o "}"

\* JSON.stringify(item.variant): a stored line has a variantId path and no
\* variant path.
itemVariantJson(line) == "undefined"

\* Lines 139-143: cart.items.findIndex(...), 0 for -1.
existingItemIndex(lines, p, v) ==
    LET hits == {i \in DOMAIN lines : /\ lines[i].productId = p
                                      /\ itemVariantJson(lines[i]) = jsonStringify(v)} IN
    IF hits = {} THEN 0 ELSE CHOOSE i \in hits : \A j \in hits : i <= j

\* findIndex(item => item._id.toString() === itemId), 0 for -1.
itemIndexById(lines, itemId) ==
    LET hits == {i \in DOMAIN lines : lines[i].id = itemId} IN
    IF hits = {} THEN 0 ELSE CHOOSE i \in hits : TRUE

\* CartSchema.pre("save"): totals.subtotal is the sum of the lines' totals.
cartPreSave(cart) ==
    [cart EXCEPT !.subtotal = SumOver([i \in DOMAIN cart.lines |-> cart.lines[i].total],
                                      DOMAIN cart.lines)]

\* POST /cart/add
addToCart(u, p, n, v) ==
    /\ u \in Authenticated
    /\ LET r == [NoReply EXCEPT !.op = "addToCart", !.user = u, !.product = p,
                                !.quantity = n, !.variant = v,
                                !.linesBefore = Len(carts[u].lines)]
           idx == existingItemIndex(carts[u].lines, p, v) IN
       IF p \notin Products \/ ~products[p].isActive
       THEN /\ reply' = [r EXCEPT !.status = 404, !.message = "Product not found or inactive"]
            /\ UNCHANGED <<carts, nextLine>>
       ELSE IF products[p].inventory < n
       THEN /\ reply' = [r EXCEPT !.status = 400, !.message = "Insufficient stock available"]
            /\ UNCHANGED <<carts, nextLine>>
       ELSE IF idx > 0
       THEN LET newQuantity == carts[u].lines[idx].quantity + n IN
            IF newQuantity > products[p].inventory
            THEN /\ reply' = [r EXCEPT !.status = 400,
                                       !.message = "Cannot add more items than available stock"]
                 /\ UNCHANGED <<carts, nextLine>>
            ELSE /\ carts' = [carts EXCEPT ![u] =
                                 cartPreSave([@ EXCEPT !.lines[idx].quantity = newQuantity])]
                 /\ reply' = [r EXCEPT !.status = 200, !.line = carts[u].lines[idx].id,
                                       !.message = "Item added to cart successfully"]
                 /\ UNCHANGED nextLine
       ELSE IF ~v.given
       THEN \* variant._id of an undefined variant: a TypeError, the catch block
            /\ reply' = [r EXCEPT !.status = 500, !.message = "Internal server error"]
            /\ UNCHANGED <<carts, nextLine>>
       ELSE LET price == IF v.price # 0 THEN v.price ELSE products[p].price IN
            /\ nextLine <= MaxLines
            /\ carts' = [carts EXCEPT ![u] =
                            cartPreSave([@ EXCEPT !.lines =
                                Append(@, CartLine(nextLine, p, v.id, n, price, price * n))])]
            /\ nextLine' = nextLine + 1
            /\ reply' = [r EXCEPT !.status = 200, !.line = nextLine,
                                  !.message = "Item added to cart successfully"]
    /\ UNCHANGED <<products, stock0, coupon, charged, orders, req, started, totalDec, deducted,
                   cancelReq, restored, signup, trail>>
    /\ UNCHANGED <<authVars, clientVars, sideVars>>

\* An update that does not compare the quantity with the stock.
updateCartItem_noStockCheck(u, itemId, n) ==
    /\ u \in Authenticated
    /\ LET r == [NoReply EXCEPT !.op = "updateCartItem", !.user = u, !.line = itemId,
                                !.quantity = n]
           idx == itemIndexById(carts[u].lines, itemId) IN
       IF idx = 0
       THEN /\ reply' = [r EXCEPT !.status = 404, !.message = "Item not found in cart"]
            /\ UNCHANGED carts
       ELSE LET p == carts[u].lines[idx].productId IN
            IF ~products[p].isActive
            THEN /\ reply' = [r EXCEPT !.status = 404, !.product = p,
                                       !.message = "Product not found or inactive"]
                 /\ UNCHANGED carts
            ELSE IF FALSE
            THEN /\ reply' = [r EXCEPT !.status = 400, !.product = p,
                                       !.message = "Insufficient stock available"]
                 /\ UNCHANGED carts
            ELSE /\ carts' = [carts EXCEPT ![u] =
                                 cartPreSave([@ EXCEPT !.lines[idx].quantity = n])]
                 /\ reply' = [r EXCEPT !.status = 200, !.product = p,
                                       !.message = "Cart item updated successfully"]
    /\ UNCHANGED <<products, stock0, coupon, charged, orders, req, started, totalDec, deducted,
                   cancelReq, restored, nextLine, signup, trail>>
    /\ UNCHANGED <<authVars, clientVars, sideVars>>

\* PUT /cart/item/:itemId
updateCartItem(u, itemId, n) ==
    /\ u \in Authenticated
    /\ LET r == [NoReply EXCEPT !.op = "updateCartItem", !.user = u, !.line = itemId,
                                !.quantity = n]
           idx == itemIndexById(carts[u].lines, itemId) IN
       IF idx = 0
       THEN /\ reply' = [r EXCEPT !.status = 404, !.message = "Item not found in cart"]
            /\ UNCHANGED carts
       ELSE LET p == carts[u].lines[idx].productId IN
            IF ~products[p].isActive
            THEN /\ reply' = [r EXCEPT !.status = 404, !.product = p,
                                       !.message = "Product not found or inactive"]
                 /\ UNCHANGED carts
            ELSE IF products[p].inventory < n
            THEN /\ reply' = [r EXCEPT !.status = 400, !.product = p,
                                       !.message = "Insufficient stock available"]
                 /\ UNCHANGED carts
            ELSE /\ carts' = [carts EXCEPT ![u] =
                                 cartPreSave([@ EXCEPT !.lines[idx].quantity = n])]
                 /\ reply' = [r EXCEPT !.status = 200, !.product = p,
                                       !.message = "Cart item updated successfully"]
    /\ UNCHANGED <<products, stock0, coupon, charged, orders, req, started, totalDec, deducted,
                   cancelReq, restored, nextLine, signup, trail>>
    /\ UNCHANGED <<authVars, clientVars, sideVars>>

\* cart.items.splice(itemIndex, 1)
splice(lines, idx) ==
    [i \in 1..(Len(lines) - 1) |-> IF i < idx THEN lines[i] ELSE lines[i + 1]]

\* DELETE /cart/item/:itemId
removeFromCart(u, itemId) ==
    /\ u \in Authenticated
    /\ LET r == [NoReply EXCEPT !.op = "removeFromCart", !.user = u, !.line = itemId]
           idx == itemIndexById(carts[u].lines, itemId) IN
       IF idx = 0
       THEN /\ reply' = [r EXCEPT !.status = 404, !.message = "Item not found in cart"]
            /\ UNCHANGED carts
       ELSE /\ carts' = [carts EXCEPT ![u] =
                            cartPreSave([@ EXCEPT !.lines = splice(@, idx)])]
            /\ reply' = [r EXCEPT !.status = 200,
                                  !.message = "Item removed from cart successfully"]
    /\ UNCHANGED <<products, stock0, coupon, charged, orders, req, started, totalDec, deducted,
                   cancelReq, restored, nextLine, signup, trail>>
    /\ UNCHANGED <<authVars, clientVars, sideVars>>

\* DELETE /cart/clear
clearCart(u) ==
    /\ u \in Authenticated
    /\ carts' = [carts EXCEPT ![u] = cartPreSave([@ EXCEPT !.lines = <<>>, !.couponCode = ""])]
    /\ reply' = [NoReply EXCEPT !.op = "clearCart", !.user = u, !.status = 200,
                                !.message = "Cart cleared successfully"]
    /\ UNCHANGED <<products, stock0, coupon, charged, orders, req, started, totalDec, deducted,
                   cancelReq, restored, nextLine, signup, trail>>
    /\ UNCHANGED <<authVars, clientVars, sideVars>>

\* Coupon.findOne({ code, isActive: true, expiresAt: { $gt: new Date() } })
findCoupon(c, code, t) == code # "" /\ c.code = code /\ c.isActive /\ c.expiresAt > t

\* POST /cart/coupon
applyCoupon(u, code) ==
    /\ u \in Authenticated
    /\ LET r == [NoReply EXCEPT !.op = "applyCoupon", !.user = u] IN
       IF carts[u].lines = <<>>
       THEN /\ reply' = [r EXCEPT !.status = 400,
                                  !.message = "Cannot apply coupon to empty cart"]
            /\ UNCHANGED carts
       ELSE IF ~findCoupon(coupon, code, now)
       THEN /\ reply' = [r EXCEPT !.status = 400,
                                  !.message = "Invalid or expired coupon code"]
            /\ UNCHANGED carts
       ELSE IF coupon.usageLimit # 0 /\ coupon.usedCount >= coupon.usageLimit
       THEN /\ reply' = [r EXCEPT !.status = 400, !.message = "Coupon usage limit exceeded"]
            /\ UNCHANGED carts
       ELSE /\ carts' = [carts EXCEPT ![u] = cartPreSave([@ EXCEPT !.couponCode = coupon.code])]
            /\ reply' = [r EXCEPT !.status = 200, !.message = "Coupon applied successfully"]
    /\ UNCHANGED <<products, stock0, coupon, charged, orders, req, started, totalDec, deducted,
                   cancelReq, restored, nextLine, signup, trail>>
    /\ UNCHANGED <<authVars, clientVars, sideVars>>

\* DELETE /cart/coupon
removeCoupon(u) ==
    /\ u \in Authenticated
    /\ carts' = [carts EXCEPT ![u] = cartPreSave([@ EXCEPT !.couponCode = ""])]
    /\ reply' = [NoReply EXCEPT !.op = "removeCoupon", !.user = u, !.status = 200,
                                !.message = "Coupon removed successfully"]
    /\ UNCHANGED <<products, stock0, coupon, charged, orders, req, started, totalDec, deducted,
                   cancelReq, restored, nextLine, signup, trail>>
    /\ UNCHANGED <<authVars, clientVars, sideVars>>

\* GET /cart
getCart(u) ==
    /\ u \in Authenticated
    /\ LET lines == carts[u].lines
           \* lines 25-32: the lines whose product is active, and their subtotal
           validItems == SelectSeq(lines, LAMBDA l : products[l.productId].isActive)
           subtotal == SumOver([i \in DOMAIN validItems |->
                                   products[validItems[i].productId].price
                                       * validItems[i].quantity], DOMAIN validItems)
           found == findCoupon(coupon, carts[u].couponCode, now)
           discount == IF found THEN couponDiscount(coupon, subtotal) ELSE 0
           pruned == IF Len(validItems) # Len(lines)
                     THEN cartPreSave([carts[u] EXCEPT !.lines = validItems])
                     ELSE carts[u]
           cleaned == IF carts[u].couponCode # "" /\ ~found
                      THEN cartPreSave([pruned EXCEPT !.couponCode = ""])
                      ELSE pruned IN
       /\ carts' = [carts EXCEPT ![u] = cleaned]
       /\ reply' = [NoReply EXCEPT !.op = "getCart", !.user = u, !.status = 200,
                                   !.subtotal = subtotal, !.discount = discount,
                                   !.total = subtotal - discount]
    /\ UNCHANGED <<products, stock0, coupon, charged, orders, req, started, totalDec, deducted,
                   cancelReq, restored, nextLine, signup, trail>>
    /\ UNCHANGED <<authVars, clientVars, sideVars>>

-----------------------------------------------------------------------------
(* The product controller: src/unnamed/part_012, lines 623-1428 *)

\* A query that also returns products that are not active.
findProducts_any(P, category) ==
    {p \in Products : category = "" \/ P[p].category = category}

\* Product.find({ isActive: true, category }): "" is a request without category.
findProducts(P, category) ==
    {p \in Products : P[p].isActive /\ (category = "" \/ P[p].category = category)}

Categories == {"toys", "books"}

\* GET /products
getProducts(category) ==
    /\ reply' = [Reply("getProducts", 200, "") EXCEPT !.found = findProducts(products, category)]
    /\ UNCHANGED <<orderVars, cancelReq, restored, nextLine, signup, trail>>
    /\ UNCHANGED <<authVars, clientVars, sideVars>>

\* GET /products/search, without a search text
searchProducts(category) ==
    /\ reply' = [Reply("searchProducts", 200, "") EXCEPT !.found = findProducts(products, category)]
    /\ UNCHANGED <<orderVars, cancelReq, restored, nextLine, signup, trail>>
    /\ UNCHANGED <<authVars, clientVars, sideVars>>

\* GET /products/category/:category
getProductsByCategory(category) ==
    /\ reply' = [Reply("getProductsByCategory", 200, "") EXCEPT
                    !.found = findProducts(products, category)]
    /\ UNCHANGED <<orderVars, cancelReq, restored, nextLine, signup, trail>>
    /\ UNCHANGED <<authVars, clientVars, sideVars>>

\* GET /products/:id: Product.findOne({ _id: id, isActive: true })
getProductById(p) ==
    /\ reply' = IF p \in findProducts(products, "")
                THEN [Reply("getProductById", 200, "") EXCEPT !.product = p, !.found = {p}]
                ELSE [Reply("getProductById", 404, "Product not found") EXCEPT !.product = p]
    /\ UNCHANGED <<orderVars, cancelReq, restored, nextLine, signup, trail>>
    /\ UNCHANGED <<authVars, clientVars, sideVars>>

\* DELETE /products/:id
deleteProduct(a, p) ==
    /\ a \in Admins
    /\ IF p \notin Products
       THEN /\ reply' = [Reply("deleteProduct", 404, "Product not found") EXCEPT !.product = p]
            /\ UNCHANGED <<products, trail>>
       ELSE /\ products' = [products EXCEPT ![p].isActive = FALSE]
            /\ trail' = [trail EXCEPT ![p] = "deleted"]
            /\ reply' = [Reply("deleteProduct", 200, "Product deleted successfully")
                            EXCEPT !.user = a, !.product = p]
    /\ UNCHANGED <<stock0, carts, coupon, charged, orders, req, started, totalDec, deducted,
                   cancelReq, restored, nextLine, signup>>
    /\ UNCHANGED <<authVars, clientVars, sideVars>>

\* toggleProductActiveStatus: product.isActive = req.body.isActive
toggleProductActiveStatus(a, p, isActive) ==
    /\ a \in Admins
    /\ IF p \notin Products
       THEN /\ reply' = [Reply("toggleProductActiveStatus", 404, "Product not found")
                            EXCEPT !.product = p]
            /\ UNCHANGED <<products, trail>>
       ELSE /\ products' = [products EXCEPT ![p].isActive = isActive]
            /\ trail' = [trail EXCEPT ![p] =
                            IF isActive /\ @ \in {"deleted", "updated"} THEN "toggled" ELSE @]
            /\ reply' = [Reply("toggleProductActiveStatus", 200,
                               "Product status updated successfully")
                            EXCEPT !.user = a, !.product = p]
    /\ UNCHANGED <<stock0, carts, coupon, charged, orders, req, started, totalDec, deducted,
                   cancelReq, restored, nextLine, signup>>
    /\ UNCHANGED <<authVars, clientVars, sideVars>>

\* Object.assign(product, updateData): the paths of the body overwrite the
\* document's.
objectAssign(doc, data) ==
    [f \in DOMAIN doc |-> IF f \in DOMAIN data THEN data[f] ELSE doc[f]]

\* Bodies of PUT /products/:id that updateProductValidation lets through: it
\* tests name, description, price, category and stock, and no other path.
UpdateBodies == {[price |-> 25], [isActive |-> TRUE], [isActive |-> FALSE]}

\* PUT /products/:id
updateProduct(a, p, updateData) ==
    /\ a \in Admins
    /\ IF p \notin Products
       THEN /\ reply' = [Reply("updateProduct", 404, "Product not found") EXCEPT !.product = p]
            /\ UNCHANGED <<products, trail>>
       ELSE /\ products' = [products EXCEPT ![p] = objectAssign(@, updateData)]
            /\ trail' = [trail EXCEPT ![p] =
                            IF @ = "deleted" /\ products'[p].isActive THEN "updated" ELSE @]
            /\ reply' = [Reply("updateProduct", 200, "Product updated successfully")
                            EXCEPT !.user = a, !.product = p]
    /\ UNCHANGED <<stock0, carts, coupon, charged, orders, req, started, totalDec, deducted,
                   cancelReq, restored, nextLine, signup>>
    /\ UNCHANGED <<authVars, clientVars, sideVars>>

-----------------------------------------------------------------------------
(* Properties *)

\* C1: for every active user U, an access token that login or refreshToken
\* returned for U, presented as "Bearer <token>" before it expires, passes
\* authenticateToken: next() is called once without an error and req.user is U.
C1_IssuedAccessTokenPasses ==
    \A a \in issuedAccess :
        (users[a.user].exists /\ users[a.user].isActive /\ now < a.token.exp)
        => authenticateToken(Header("bearer", a.token), users, now)
              = MwResult(<<0>>, a.user, "")

\* C2: after register answered 201 for email e with password p, and with no
\* password change or deactivation since, login with e and p answers 200 with
\* an access token and a refresh token, and login with e and any other
\* password answers 401 "Invalid credentials".
C2_RegisteredUserLogsIn ==
    (resp.op = "login" /\ registered[resp.email] # "")
    => IF resp.password = registered[resp.email]
       THEN /\ resp.status = 200
            /\ resp.accessToken # NoToken
            /\ resp.refreshToken # NoToken
       ELSE /\ resp.status = 401
            /\ resp.message = "Invalid credentials"

\* C3: authenticateToken calls next exactly once per request, and with a 401
\* error and req.user unset whenever the header carries no token, the token
\* fails verification, the token's user does not exist, or the user is inactive.
C3_AuthenticateTokenRejects ==
    /\ resp.op = "authenticate" => resp.nextCalls = <<1>>
    /\ \A h \in Headers :
          LET a  == authenticateToken(h, users, now)
              tk == HeaderToken(h) IN
          /\ Len(a.calls) = 1
          /\ (\/ tk.typ = "none"
              \/ ~jwtVerify(tk, "access", now)
              \/ findById(users, tk.id) = 0
              \/ ~users[findById(users, tk.id)].isActive)
             => (a.calls = <<401>> /\ a.user = 0)

C3_InactiveUserRejected ==
    /\ resp.op = "authenticate"
    /\ resp.hdr.kind = "bearer"
    /\ jwtVerify(resp.hdr.token, "access", now)
    /\ findById(users, resp.hdr.token.id) # 0
    /\ ~users[findById(users, resp.hdr.token.id)].isActive
    /\ resp.status = 401
    /\ resp.user = 0
    /\ resp.nextCalls = <<1>>

AdminRoutes ==
    {"createProduct", "updateProduct", "deleteProduct", "uploadProductImages",
     "getAllOrders", "getOrderStats", "updateOrderStatus"}

\* C4: on every admin route a request whose authenticated user is not an admin
\* is answered 403 and never reaches the controller, and a request with no
\* authenticated user is answered 401.
C4_AdminRoutesGuarded ==
    (resp.op = "route" /\ resp.route \in AdminRoutes)
    => /\ (resp.user # 0 /\ users[resp.user].role # "admin")
              => (resp.status = 403 /\ ~resp.invoked)
       /\ resp.user = 0 => (resp.status = 401 /\ ~resp.invoked)

C4_CustomerRefused ==
    /\ resp.op = "route"
    /\ resp.route \in AdminRoutes
    /\ resp.user # 0
    /\ users[resp.user].role = "customer"
    /\ resp.status = 403
    /\ ~resp.invoked

\* The hour at which the RefreshToken document written for a refresh JWT
\* expires: both lifetimes start when the token is issued.
docExpiry(tk) == tk.exp - RefreshJwtTTL + RefreshDocTTL

\* C5: refresh tokens are rotated: once refreshToken has succeeded for T and
\* returned T', every later refreshToken(T) is answered 401 "Invalid refresh
\* token", and refreshToken(T') succeeds (for a user still stored and active)
\* as long as T' has not itself been rotated, logged out or expired.
C5_RefreshRotation ==
    /\ \A tk \in rotated :
          LET l == refreshLookup(refreshDocs, users, tk, now) IN
          l.status = 401 /\ l.message = "Invalid refresh token"
    /\ \A tk \in returned :
          (/\ tk \notin rotated
           /\ tk \notin revoked
           /\ now < docExpiry(tk)
           /\ findById(users, tk.userId) # 0
           /\ users[tk.userId].isActive)
          => refreshLookup(refreshDocs, users, tk, now).status = 0

\* C6: once a logout issued through authApi.logout has completed, the refresh
\* token the client held is rejected by POST /auth/refresh-token, so no later
\* request obtains new tokens with it.
C6_LoggedOutTokenRejected ==
    \A tk \in loggedOut : refreshLookup(refreshDocs, users, tk, now).status # 0

\* A mailed reset token that is the one stored for its user, has not expired,
\* and whose user has had no reset since.
FreshReset(x) ==
    /\ users[x.user].exists
    /\ users[x.user].passwordResetToken = x.token
    /\ now < x.expires
    /\ x.user \notin pwChanged

\* C7: a reset token that forgotPassword issued for U is accepted by
\* resetPassword before its one-hour expiry and at most once, never later or
\* again; a successful resetPassword changes the password of U and of no other
\* user; a token forgotPassword did not issue is answered 400 and changes no
\* password.
C7_ResetTokenAccepted ==
    /\ pwChanged \subseteq {x.user : x \in issuedReset}
    /\ resp.op = "resetPassword" =>
          /\ resp.status = 200 =>
                \E x \in issuedReset : x.token = resp.reset /\ x.user = resp.user
          /\ resp.reset \notin {x.token : x \in issuedReset} => resp.status = 400
          /\ \A x \in issuedReset :
                (x.token = resp.reset /\ FreshReset(x)) => resp.status = 200

UserHandlers == {"updateProfile", "changePassword", "deleteAccount"}

PastStockLoop(q) ==
    q.pc \in {"clear", "email"} \/ (q.pc = "done" /\ q.failedAt \in {"clear", "email"})
                                \/ (q.pc = "done" /\ q.status = 201)

FailsAfterPayment(k) ==
    /\ req[k].pc # "done"
    /\ req[k].paid
    /\ req'[k].pc = "done"
    /\ req'[k].failedAt # ""

NextCatalog ==
    \/ getProducts("")
    \/ searchProducts("")
    \/ \E c \in Categories : getProductsByCategory(c)
    \/ \E p \in Products : getProductById(p)
    \/ \E a \in Admins, p \in Products \cup {"p0"} : deleteProduct(a, p)
    \/ \E a \in Admins, p \in Products \cup {"p0"}, b \in BOOLEAN :
          toggleProductActiveStatus(a, p, b)
    \/ \E a \in Admins, p \in Products \cup {"p0"}, d \in UpdateBodies : updateProduct(a, p, d)
    \/ \E p \in Products : addToCart(1, p, 1, [given |-> TRUE, id |-> "v1", price |-> 0])

SpecCatalog == InitFulfil /\ [][NextCatalog]_vars

\* C11: updateOrderStatus has no transition guard beyond the status whitelist of
\* its route: whatever the current status of the order, a target status of the
\* whitelist is written (and answered 200, or 500 by the catch block when the
\* status e-mail throws after the save), and a target status outside the
\* whitelist is answered 400 with the order left as it was.
C11_StatusWhitelistOnly ==
    reply.op = "updateOrderStatus" =>
        /\ reply.target \notin StatusWhitelist =>
              reply.status = 400 /\ reply.after = reply.before
        /\ reply.target \in StatusWhitelist /\ reply.before # "" =>
              reply.status \in {200, 500} /\ reply.after = reply.target
        /\ reply.status = 200 => reply.target \in StatusWhitelist

C11_DeliveredToPending ==
    /\ reply.op = "updateOrderStatus"
    /\ reply.status = 200
    /\ reply.before = "delivered"
    /\ reply.target = "pending"
    /\ orders[reply.order].status = "pending"

\* No createOrder and no cancelOrder request is running.
Quiescent ==
    /\ \A k \in UserIds : req[k].pc \in {"idle", "done"}
    /\ \A k \in UserIds : cancelReq[k].pc \in {"idle", "done"}

\* The quantity of product p the orders that are not cancelled hold.
heldBy(O, p) ==
    SumOver([n \in DOMAIN O |->
                IF O[n].status = "cancelled" THEN 0 ELSE lineQty(O[n].items)[p]],
            DOMAIN O)

PaymentFailed(q) == q.pc = "done" /\ q.message = "Payment processing failed"

\* The request has stored its order, taken stock or emptied the cart.
HasPersisted(q) ==
    \/ q.saved \/ q.order # 0
    \/ \E p \in Products : q.decs[p] > 0
    \/ q.pc \in {"stock", "clear", "email"}
    \/ q.status = 201

C13_OneAccountOthers409 ==
    /\ \A e \in Emails : Cardinality({u \in UserIds : users[u].exists /\ users[u].email = e}) <= 1
    /\ \A k \in 1..MaxInflight :
          signup[k].stage = "done" /\ signup[k].status # 201 =>
              /\ signup[k].status = 409
              /\ signup[k].message = "User already exists with this email"

\* The last answers of the public product routes and of addToCart do not show
\* product p, and its document is not active.
Hidden(p) ==
    /\ ~products[p].isActive
    /\ reply.op \in {"getProducts", "searchProducts", "getProductsByCategory"} =>
          p \notin reply.found
    /\ reply.op = "getProductById" /\ reply.product = p => reply.status = 404
    /\ reply.op = "addToCart" /\ reply.product = p => reply.status = 404

\* C14 as stated: a product deleteProduct has deleted keeps its document with
\* isActive = false, is returned by none of getProducts, searchProducts,
\* getProductsByCategory and getProductById (404) and is refused by addToCart
\* (404), until toggleProductActiveStatus sets it active again.
C14_HiddenUntilToggled ==
    \A p \in Products : trail[p] \in {"deleted", "updated"} => Hidden(p)

\* C14, amended: the same, until toggleProductActiveStatus or an updateProduct
\* request whose body carries isActive: true sets it active again.
C14_HiddenUntilReactivated ==
    \A p \in Products : trail[p] = "deleted" => Hidden(p)

C14_DeletedProductRefused ==
    \E p \in Products :
        /\ trail[p] = "deleted"
        /\ reply.op = "addToCart" /\ reply.product = p /\ reply.status = 404
        /\ findProducts(products, "") = Products \ {p}


-----------------------------------------------------------------------------
(* Coupons: applyCoupon of the cart controller and createOrder *)

\* Customers apply the coupon code to their carts and order cash on delivery.
NextCoupon ==
    \/ \E u \in UserIds : applyCoupon(u, "SAVE10")
    \/ \E u \in UserIds : removeCoupon(u)
    \/ \E u \in UserIds : orderCheck(u, "cash_on_delivery")
    \/ \E k \in UserIds : orderCoupon(k)
    \/ \E k \in UserIds : orderSave(k, TRUE)
    \/ \E k \in UserIds : orderDecrement(k, TRUE)
    \/ \E k \in UserIds : orderClear(k, TRUE)
    \/ \E k \in UserIds : orderEmail(k, TRUE)

SpecCoupon == InitOrder /\ [][NextCoupon]_vars

-----------------------------------------------------------------------------
(* The cart routes: src/unnamed/part_008 *)

\* The quantities addToCartValidation and updateCartItemValidation let through.
Quantities == 1..2

\* The first customer's requests.
NextCart ==
    \/ \E p \in Products, n \in Quantities, v \in Variants : addToCart(1, p, n, v)
    \/ \E itemId \in 1..MaxLines, n \in Quantities : updateCartItem(1, itemId, n)
    \/ \E itemId \in 1..MaxLines : removeFromCart(1, itemId)
    \/ clearCart(1)

SpecCart == InitOrder /\ [][NextCart]_vars

\* The sum of price x quantity over the lines of a cart.
lineSum(lines) == SumOver([i \in DOMAIN lines |-> lines[i].price * lines[i].quantity], DOMAIN lines)

linesOf(lines, p, v) ==
    {i \in DOMAIN lines : lines[i].productId = p /\ lines[i].variantId = v.id}

\* C20: a cart never holds two lines for the same product and variant;
\* addToCart for a product and variant already in the cart increases the
\* quantity of the existing line by the requested quantity, and addToCart for
\* a product not yet in the cart (with or without a variant) appends exactly
\* one line with the requested quantity.
C20_OneLinePerProductAndVariant ==
    /\ [](\A u \in UserIds : \A i, j \in DOMAIN carts[u].lines :
              /\ carts[u].lines[i].productId = carts[u].lines[j].productId
              /\ carts[u].lines[i].variantId = carts[u].lines[j].variantId
              => i = j)
    /\ [][\A u \in UserIds, p \in Products, n \in Quantities, v \in Variants :
              addToCart(u, p, n, v) /\ products[p].inventory >= n =>
                  LET old == carts[u].lines
                      new == carts'[u].lines
                      hits == linesOf(old, p, v) IN
                  IF hits # {}
                  THEN \/ reply'.message = "Cannot add more items than available stock"
                       \/ /\ reply'.status = 200
                          /\ Len(new) = Len(old)
                          /\ \E i \in hits : new[i].quantity = old[i].quantity + n
                  ELSE /\ reply'.status = 200
                       /\ Len(new) = Len(old) + 1
                       /\ new[Len(new)].productId = p
                       /\ new[Len(new)].quantity = n]_vars


-----------------------------------------------------------------------------
(* Discounts: getCart of the cart controller and createOrder *)

\* Coupons the Coupon schema accepts (discountValue and maxDiscountAmount have
\* min: 0 and no maximum; 0 stands for an absent maxDiscountAmount).  The
\* values keep subtotal * discountValue / 100 a whole number.
Coupons ==
    {[Save10 EXCEPT !.discountType = ty, !.discountValue = val, !.maxDiscountAmount = cap] :
        ty \in {"percentage", "fixed"}, val \in {10, 150}, cap \in {0, 5}}

InitDiscount ==
    /\ Accounts([u \in UserIds |-> "customer"])
    /\ \E c \in Coupons : ShopWith(c)

\* Customers look at their carts, apply the coupon and order cash on delivery.
NextDiscount ==
    \/ \E u \in UserIds : getCart(u)
    \/ \E u \in UserIds : applyCoupon(u, "SAVE10")
    \/ \E u \in UserIds : orderCheck(u, "cash_on_delivery")
    \/ \E k \in UserIds : orderCoupon(k)
    \/ \E k \in UserIds : orderSave(k, TRUE)
    \/ \E k \in UserIds : orderDecrement(k, TRUE)
    \/ \E k \in UserIds : orderClear(k, TRUE)
    \/ \E k \in UserIds : orderEmail(k, TRUE)

SpecDiscount == InitDiscount /\ [][NextDiscount]_vars

-----------------------------------------------------------------------------
(* Order history: src/unnamed/part_012, lines 236-328 *)

\* A lookup by _id alone.
findOrder_anyOwner(O, id, userId) ==
    IF id \in DOMAIN O THEN id ELSE 0

\* Order.findOne({ _id: id, userId }), 0 for null.
findOrder(O, id, userId) ==
    IF id \in DOMAIN O /\ O[id].user = userId THEN id ELSE 0

\* GET /orders: Order.find({ userId })
getOrders(u) ==
    /\ u \in Authenticated
    /\ reply' = [NoReply EXCEPT !.op = "getOrders", !.user = u, !.status = 200,
                                !.found = {n \in DOMAIN orders : orders[n].user = u}]
    /\ UNCHANGED <<orderVars, cancelReq, restored, nextLine, signup, trail>>
    /\ UNCHANGED <<authVars, clientVars, sideVars>>

\* GET /orders/:id
getOrderById(u, id) ==
    /\ u \in Authenticated
    /\ LET n == findOrder(orders, id, u)
           r == [NoReply EXCEPT !.op = "getOrderById", !.user = u, !.order = id] IN
       reply' = IF n = 0
                THEN [r EXCEPT !.status = 404, !.message = "Order not found"]
                ELSE [r EXCEPT !.status = 200, !.found = {n}, !.total = orders[n].total,
                               !.after = orders[n].status]
    /\ UNCHANGED <<orderVars, cancelReq, restored, nextLine, signup, trail>>
    /\ UNCHANGED <<authVars, clientVars, sideVars>>

\* The state after the second customer's cash-on-delivery order for one p1
\* was stored; every customer has a filled cart again.
InitIsolation ==
    /\ Accounts([u \in UserIds |-> "customer"])
    /\ products = [p \in Products |->
                      [stock |-> 1,
                       inventory |-> IF p = "p1" THEN 2 ELSE 1,
                       price |-> IF p = "p1" THEN 20 ELSE 30,
                       category |-> IF p = "p1" THEN "toys" ELSE "books",
                       isActive |-> TRUE]]
    /\ stock0 = [p \in Products |-> IF p = "p1" THEN 2 ELSE 1]
    /\ carts = [u \in UserIds |->
                   [lines |-> IF u = 1
                              THEN <<CartLine(1, "p1", "", 1, 20, 20),
                                     CartLine(2, "p2", "", 1, 30, 30)>>
                              ELSE <<CartLine(u + 1, "p2", "", 1, 30, 30)>>,
                    couponCode |-> IF u = 1 THEN "SAVE10" ELSE "",
                    subtotal |-> IF u = 1 THEN 50 ELSE 30]]
    /\ coupon = Save10
    /\ charged = 0
    /\ orders = <<[user |-> 2, items |-> <<[productId |-> "p1", quantity |-> 1, price |-> 20]>>,
                   total |-> 20, paid |-> FALSE, status |-> "pending"]>>
    /\ req = [k \in UserIds |-> NoRequest]
    /\ started = 1
    /\ totalDec = [p \in Products |-> IF p = "p1" THEN 1 ELSE 0]
    /\ deducted = [n \in OrderIds |-> [p \in Products |-> IF n = 1 /\ p = "p1" THEN 1 ELSE 0]]
    /\ reply = NoReply
    /\ cancelReq = [k \in UserIds |-> NoCancel]
    /\ restored = [n \in OrderIds |-> [p \in Products |-> 0]]
    /\ nextLine = MaxUsers + 2
    /\ signup = [k \in 1..MaxInflight |-> NoSignup]
    /\ trail = [p \in Products |-> "live"]

\* The first customer has no createOrder or cancelOrder request under way.
Settled == req[1].pc \in {"idle", "done"} /\ cancelReq[1].pc \in {"idle", "done"}

\* The cart and order endpoints called with the first customer's credentials,
\* one request after the other, with the ids of a cart line of the caller (1)
\* and of the second customer (3) and the ids of every order.
NextIsolation ==
    \/ Settled /\ getCart(1)
    \/ Settled /\ addToCart(1, "p1", 1, [given |-> TRUE, id |-> "v1", price |-> 0])
    \/ Settled /\ \E itemId \in {1, 3} : updateCartItem(1, itemId, 2)
    \/ Settled /\ \E itemId \in {1, 3} : removeFromCart(1, itemId)
    \/ Settled /\ clearCart(1)
    \/ Settled /\ applyCoupon(1, "SAVE10")
    \/ Settled /\ removeCoupon(1)
    \/ Settled /\ getOrders(1)
    \/ Settled /\ \E id \in OrderIds : getOrderById(1, id)
    \/ Settled /\ orderCheck(1, "cash_on_delivery")
    \/ orderCoupon(1)
    \/ orderSave(1, TRUE)
    \/ orderDecrement(1, TRUE)
    \/ orderClear(1, TRUE)
    \/ orderEmail(1, TRUE)
    \/ Settled /\ \E id \in OrderIds : cancelFind(1, id)
    \/ cancelSave(1, TRUE)
    \/ cancelRestore(1, TRUE)
    \/ cancelEmail(1, TRUE)

SpecIsolation == InitIsolation /\ [][NextIsolation]_vars

\* The customer whose request takes the step: a createOrder or cancelOrder
\* step moves that customer's request, any other step records its reply.
caller ==
    IF req' # req THEN CHOOSE k \in UserIds : req'[k] # req[k]
    ELSE IF cancelReq' # cancelReq THEN CHOOSE k \in UserIds : cancelReq'[k] # cancelReq[k]
    ELSE reply'.user

\* The step is a request that is answered in one step.
answered == req' = req /\ cancelReq' = cancelReq

-----------------------------------------------------------------------------
(* The ApiClient response interceptor, one action per awaited call:
   src/unnamed/part_004, lines 111-183 *)

\* An interceptor that does not look at config._retry.
mayRefresh_always(call, status) == status = 401

\* Line 116: error.response?.status === 401 && !originalRequest._retry
mayRefresh(call, status) == status = 401 /\ ~call.retry

\* The answer of a route behind authenticateToken to a request with that
\* access token.
routeStatus(access) ==
    IF authenticateToken(clientHeader(access), users, now).calls[1] = 0 THEN 200 ELSE 401

\* The client sends request k with the access token it holds.
callSend(k) ==
    /\ ~exited
    /\ apiCalls[k].pc = "idle"
    /\ LET st == routeStatus(clientAccess) IN
       apiCalls' = [apiCalls EXCEPT ![k].status = st,
                                    ![k].pc = IF st = 200 THEN "done" ELSE "rejected"]
    /\ UNCHANGED <<authVars, clientVars, orderVars, shopVars, sessionVars, cacheVars, storeVars>>

\* Lines 113-136 up to the await: the error handler of the interceptor, and
\* refreshAccessToken up to its axios.post (lines 165-174).
callIntercept(k) ==
    /\ apiCalls[k].pc = "rejected"
    /\ LET c == apiCalls[k] IN
       IF ~mayRefresh(c, c.status)
       THEN apiCalls' = [apiCalls EXCEPT ![k].pc = "done"]
       ELSE IF clientRefresh = NoToken
       THEN apiCalls' = [apiCalls EXCEPT ![k].retry = TRUE, ![k].pc = "done"]
       ELSE apiCalls' = [apiCalls EXCEPT ![k].retry = TRUE, ![k].pc = "refreshing",
                                         ![k].sent = clientRefresh]
    /\ UNCHANGED <<authVars, clientVars, orderVars, shopVars, sessionVars, cacheVars, storeVars>>

\* The server answers the POST /auth/refresh-token of request k.
callRefreshServer(k) ==
    /\ ~exited
    /\ apiCalls[k].pc = "refreshing"
    /\ nextId <= MaxDocs
    /\ LET c == apiCalls[k]
           r == refreshRequest(refreshDocs, nextId, users, c.sent, now) IN
       /\ refreshDocs' = r.docs
       /\ nextId' = r.nextId
       /\ issuedAccess' = IF r.status = 200
                          THEN issuedAccess \cup {[token |-> r.accessToken, user |-> r.uid]}
                          ELSE issuedAccess
       /\ returned' = IF r.status = 200 THEN returned \cup {r.refreshToken} ELSE returned
       /\ rotated' = IF r.status = 200 THEN rotated \cup {c.sent} ELSE rotated
       /\ apiCalls' = [apiCalls EXCEPT ![k].pc = "answered", ![k].refreshes = @ + 1,
                                       ![k].tokens = [status |-> r.status,
                                                      accessToken |-> r.accessToken,
                                                      refreshToken |-> r.refreshToken]]
    /\ UNCHANGED <<users, randCtr, now, ticks, resp, registered, pwChanged, exited,
                   inflight, revoked, issuedReset>>
    /\ UNCHANGED <<clientVars, orderVars, shopVars, sessionVars, cacheVars, storeVars>>

\* Lines 175-181 and 120-124: the rest of refreshAccessToken, which saves the
\* tokens of a 2xx answer and clears the tokens on any other, and the
\* interceptor's use of its result.
callRefreshDone(k) ==
    /\ apiCalls[k].pc = "answered"
    /\ LET c == apiCalls[k] IN
       IF c.tokens.status = 200
       THEN /\ clientAccess' = c.tokens.accessToken
            /\ clientRefresh' = c.tokens.refreshToken
            /\ apiCalls' = [apiCalls EXCEPT ![k].pc = "retry"]
       ELSE /\ clientAccess' = NoToken
            /\ clientRefresh' = NoToken
            /\ apiCalls' = [apiCalls EXCEPT ![k].pc = "done"]
    /\ UNCHANGED loggedOut
    /\ UNCHANGED <<authVars, orderVars, shopVars, sessionVars, cacheVars, storeVars>>

\* Line 124: this.client(originalRequest).  The request interceptor (lines
\* 101-109) overwrites the Authorization header when the client holds a token.
callRetry(k) ==
    /\ ~exited
    /\ apiCalls[k].pc = "retry"
    /\ LET access == IF clientAccess # NoToken THEN clientAccess
                     ELSE apiCalls[k].tokens.accessToken
           st == routeStatus(access) IN
       apiCalls' = [apiCalls EXCEPT ![k].status = st, ![k].retries = @ + 1,
                                    ![k].pc = IF st = 200 THEN "done" ELSE "rejected"]
    /\ UNCHANGED <<authVars, clientVars, orderVars, shopVars, sessionVars, cacheVars, storeVars>>

\* A browser holding the tokens of the stored session of an active user.
InitApi ==
    /\ users = [u \in UserIds |-> IF u = 1 THEN SeedUser("customer", TRUE) ELSE NoUser]
    /\ refreshDocs = SeedSession.docs
    /\ nextId = SeedSession.nextId
    /\ returned = {SeedSession.refreshToken}
    /\ InitProcess
    /\ NoShop
    /\ \E held \in BOOLEAN :
          /\ clientRefresh = IF held THEN SeedSession.refreshToken ELSE NoToken
          /\ clientAccess = SeedSession.accessToken
    /\ loggedOut = {}
    /\ NoSide

NextApi ==
    \/ \E k \in 1..MaxCalls : callSend(k)
    \/ \E k \in 1..MaxCalls : callIntercept(k)
    \/ \E k \in 1..MaxCalls : callRefreshServer(k)
    \/ \E k \in 1..MaxCalls : callRefreshDone(k)
    \/ \E k \in 1..MaxCalls : callRetry(k)
    \/ \E d \in TickSteps : Tick(d)

SpecApi == InitApi /\ [][NextApi]_vars

\* C23: when two requests in flight from the ApiClient both receive 401, after
\* both response interceptors have run the client holds the newest token pair
\* the server issued and neither interceptor has cleared the tokens; a
\* concurrent refresh never logs the user out.
C23_ConcurrentRefreshKeepsSession ==
    (/\ \A k \in 1..MaxCalls : apiCalls[k].pc = "done" /\ apiCalls[k].refreshes = 1
     /\ now < RefreshDocTTL)
        => /\ clientRefresh # NoToken
           /\ clientAccess # NoToken
           /\ clientRefresh \in returned \ rotated
           /\ findTokenDocs(refreshDocs, clientRefresh) # {}


\* Every response and every continuation of a request in flight is handled
\* in the end: the server answers and the browser runs its event loop.
FairApi ==
    \A k \in 1..MaxCalls :
        WF_vars(callIntercept(k) \/ callRefreshServer(k) \/ callRefreshDone(k) \/ callRetry(k))

SpecApiFair == InitApi /\ [][NextApi]_vars /\ FairApi

\* C24: for any single request the response interceptor performs at most one
\* token refresh and at most one retry; if the retried request is again
\* answered 401, or the refresh yields no tokens, the error is returned to the
\* caller, so no request is retried indefinitely.
C24_RefreshBounded ==
    /\ [](\A k \in 1..MaxCalls :
              /\ apiCalls[k].refreshes <= 1
              /\ apiCalls[k].retries <= 1
              /\ apiCalls[k].retries <= apiCalls[k].refreshes)
    /\ \A k \in 1..MaxCalls :
          /\ apiCalls[k].pc = "rejected" /\ apiCalls[k].retries = 1
                ~> apiCalls[k].pc = "done" /\ apiCalls[k].status = 401
                                           /\ apiCalls[k].retries = 1
          /\ apiCalls[k].pc = "answered" /\ apiCalls[k].tokens.status # 200
                ~> apiCalls[k].pc = "done" /\ apiCalls[k].status = 401
                                           /\ apiCalls[k].retries = 0
          /\ apiCalls[k].pc # "idle" ~> apiCalls[k].pc = "done"

C24_RetriedOnceThenFailed ==
    \E k \in 1..MaxCalls :
        /\ apiCalls[k].pc = "done" /\ apiCalls[k].status = 401
        /\ apiCalls[k].refreshes = 1 /\ apiCalls[k].retries = 1


-----------------------------------------------------------------------------
(* SessionService over Redis: src/backend/src/services/sessionService.ts and
   src/backend/src/config/redis.ts, one action per awaited Redis command *)

\* RedisClient.getSession: GET session:<id>, null for a missing or expired key.
redisGetSession(s, t) == IF s.exists /\ s.expiresAt > t THEN s ELSE NoSession

\* RedisClient.setSession: SETEX session:<id> ttl data, whether or not the key
\* exists.
redisSetSession(data, t) == [data EXCEPT !.exists = TRUE, !.expiresAt = t + SessionTTL]

\* sessionService.ts line 19: the read of getSession.
getSessionRead(k) ==
    /\ sessionOps[k].pc \in {"idle", "done"}
    /\ LET data == redisGetSession(session, now)
           o == [NoSessionOp EXCEPT !.op = "getSession", !.read = data,
                                    !.afterDestroy = destroyed] IN
       sessionOps' = [sessionOps EXCEPT ![k] =
                         IF data.exists THEN [o EXCEPT !.pc = "write"]
                         ELSE [o EXCEPT !.pc = "done"]]
    /\ UNCHANGED <<session, destroyed>>
    /\ UNCHANGED <<authVars, clientVars, orderVars, shopVars, apiVars, cacheVars, storeVars>>

\* Lines 23-27: lastActivity is set and the value is stored again.
getSessionWrite(k) ==
    /\ sessionOps[k].pc = "write" /\ sessionOps[k].op = "getSession"
    /\ LET data == [sessionOps[k].read EXCEPT !.lastActivity = now] IN
       /\ session' = redisSetSession(data, now)
       /\ sessionOps' = [sessionOps EXCEPT ![k].pc = "done", ![k].result = data]
    /\ UNCHANGED destroyed
    /\ UNCHANGED <<authVars, clientVars, orderVars, shopVars, apiVars, cacheVars, storeVars>>

\* Line 31: the read of updateSession.
updateSessionRead(k, note) ==
    /\ sessionOps[k].pc \in {"idle", "done"}
    /\ LET data == redisGetSession(session, now)
           o == [NoSessionOp EXCEPT !.op = "updateSession", !.read = data, !.note = note,
                                    !.afterDestroy = destroyed] IN
       sessionOps' = [sessionOps EXCEPT ![k] =
                         IF data.exists THEN [o EXCEPT !.pc = "write"]
                         ELSE [o EXCEPT !.pc = "done"]]
    /\ UNCHANGED <<session, destroyed>>
    /\ UNCHANGED <<authVars, clientVars, orderVars, shopVars, apiVars, cacheVars, storeVars>>

\* Lines 34-40: the merged value is stored.
updateSessionWrite(k) ==
    /\ sessionOps[k].pc = "write" /\ sessionOps[k].op = "updateSession"
    /\ LET data == [sessionOps[k].read EXCEPT !.note = sessionOps[k].note,
                                              !.lastActivity = now] IN
       /\ session' = redisSetSession(data, now)
       /\ sessionOps' = [sessionOps EXCEPT ![k].pc = "done"]
    /\ UNCHANGED destroyed
    /\ UNCHANGED <<authVars, clientVars, orderVars, shopVars, apiVars, cacheVars, storeVars>>

\* Lines 44-46: DEL session:<id>.
destroySession ==
    /\ ~destroyed
    /\ session' = NoSession
    /\ destroyed' = TRUE
    /\ UNCHANGED sessionOps
    /\ UNCHANGED <<authVars, clientVars, orderVars, shopVars, apiVars, cacheVars, storeVars>>

NextSessionService ==
    \/ \E k \in 1..MaxSessionOps : getSessionRead(k)
    \/ \E k \in 1..MaxSessionOps : getSessionWrite(k)
    \/ \E k \in 1..MaxSessionOps, note \in {"cart", "seen"} : updateSessionRead(k, note)
    \/ \E k \in 1..MaxSessionOps : updateSessionWrite(k)
    \/ destroySession
    \/ \E d \in TickSteps : Tick(d)

SpecSessionService == InitSignup /\ [][NextSessionService]_vars

\* C25: once destroySession(id) has completed, getSession(id) returns null in
\* every later state, for any interleaving of destroySession with concurrent
\* getSession and updateSession calls on the same id; a destroyed session is
\* never written back.
C25_DestroyedStaysDestroyed ==
    destroyed =>
        /\ ~redisGetSession(session, now).exists
        /\ ~session.exists
        /\ \A k \in 1..MaxSessionOps :
              sessionOps[k].op = "getSession" /\ sessionOps[k].afterDestroy
                  => ~sessionOps[k].read.exists

(***************************************************************************)
(* ProductService over the Redis cache                                     *)
(***************************************************************************)

\* The quantities updateProductInventory is called with.
InventoryInputs == {0, 2}

\* `cache:${key}`
cachePrefix(key) == <<"cache", ":">> \o key

\* Whether a key matches a Redis glob pattern; "*" stands for any run of
\* segments.
RECURSIVE globMatch(_, _)
globMatch(pattern, key) ==
    IF pattern = <<>> THEN key = <<>>
    ELSE IF Head(pattern) = "*"
         THEN \/ globMatch(Tail(pattern), key)
              \/ key # <<>> /\ globMatch(pattern, Tail(key))
         ELSE /\ key # <<>>
              /\ Head(key) = Head(pattern)
              /\ globMatch(Tail(pattern), Tail(key))

\* client.keys(`cache:${pattern}`): the stored keys that match.
redisKeys(C, pattern) ==
    {key \in CacheKeys : C[key].exists /\ globMatch(cachePrefix(pattern), cachePrefix(key))}

\* `product:*${productId}*`
productPattern(productId) == <<"product", ":", "*", productId, "*">>

\* `products:*`
listPattern == <<"products", ":", "*">>

\* What getProducts() and getProductBySlug() read from the database.
allProducts == [exists |-> TRUE, shown |-> [p \in Products |-> StockView(stocked[p])]]

oneProduct(productId) ==
    [exists |-> TRUE, shown |-> [p \in {productId} |-> StockView(stocked[p])]]

\* The products a completed updateProductInventory has written.
updatedProducts == {p \in Products : updatedTo[p] # -1}

\* getProducts() up to the answer of getCache: a hit is returned.
getProductsCache(k) ==
    /\ cacheOps[k].pc = "idle"
    /\ cacheOps' = [cacheOps EXCEPT ![k] =
           [NoCacheOp EXCEPT !.op = "getProducts", !.key = listKey,
                             !.afterUpdate = updatedProducts,
                             !.pc = IF cache[listKey].exists THEN "done" ELSE "db",
                             !.result = cache[listKey]]]
    /\ UNCHANGED <<stocked, cache, updatedTo>>
    /\ UNCHANGED <<authVars, clientVars, orderVars, shopVars, apiVars, sessionVars, storeVars>>

\* getProductBySlug(slug) up to the answer of getCache.
getProductBySlugCache(k, productId) ==
    LET key == slugKey(slugOf(productId)) IN
    /\ cacheOps[k].pc = "idle"
    /\ cacheOps' = [cacheOps EXCEPT ![k] =
           [NoCacheOp EXCEPT !.op = "getProductBySlug", !.key = key,
                             !.product = productId,
                             !.afterUpdate = updatedProducts,
                             !.pc = IF cache[key].exists THEN "done" ELSE "db",
                             !.result = cache[key]]]
    /\ UNCHANGED <<stocked, cache, updatedTo>>
    /\ UNCHANGED <<authVars, clientVars, orderVars, shopVars, apiVars, sessionVars, storeVars>>

\* The database read of either call.
productQuery(k) ==
    /\ cacheOps[k].pc = "db"
    /\ cacheOps' = [cacheOps EXCEPT ![k].pc = "set",
                                    ![k].read = IF cacheOps[k].op = "getProducts"
                                                THEN allProducts
                                                ELSE oneProduct(cacheOps[k].product)]
    /\ UNCHANGED <<stocked, cache, updatedTo>>
    /\ UNCHANGED <<authVars, clientVars, orderVars, shopVars, apiVars, sessionVars, storeVars>>

\* setCache(cacheKey, result) and the return of what was read.
productSetCache(k) ==
    /\ cacheOps[k].pc = "set"
    /\ cache' = [cache EXCEPT ![cacheOps[k].key] = cacheOps[k].read]
    /\ cacheOps' = [cacheOps EXCEPT ![k].pc = "done", ![k].result = cacheOps[k].read]
    /\ UNCHANGED <<stocked, updatedTo>>
    /\ UNCHANGED <<authVars, clientVars, orderVars, shopVars, apiVars, sessionVars, storeVars>>

\* updateProductInventory(productId, quantity): findByIdAndUpdate.
updateProductInventory(k, productId, quantity) ==
    /\ cacheOps[k].pc = "idle"
    /\ updatedTo[productId] = -1
    /\ \A j \in 1..MaxCacheOps :
          ~(cacheOps[j].op = "updateProductInventory" /\ cacheOps[j].product = productId)
    /\ stocked' = [stocked EXCEPT ![productId] =
           [quantity |-> quantity,
            stockStatus |-> IF quantity > 0 THEN "in_stock" ELSE "out_of_stock"]]
    /\ cacheOps' = [cacheOps EXCEPT ![k] =
           [NoCacheOp EXCEPT !.op = "updateProductInventory", !.product = productId,
                             !.quantity = quantity, !.pc = "keys1"]]
    /\ UNCHANGED <<cache, updatedTo>>
    /\ UNCHANGED <<authVars, clientVars, orderVars, shopVars, apiVars, sessionVars, storeVars>>

\* deleteCachePattern, first half: client.keys(pattern).
deleteCachePatternKeys(k) ==
    /\ cacheOps[k].pc \in {"keys1", "keys2"}
    /\ cacheOps' = [cacheOps EXCEPT
           ![k].keys = IF cacheOps[k].pc = "keys1"
                       THEN redisKeys(cache, productPattern(cacheOps[k].product))
                       ELSE redisKeys(cache, listPattern),
           ![k].pc = IF cacheOps[k].pc = "keys1" THEN "del1" ELSE "del2"]
    /\ UNCHANGED <<stocked, cache, updatedTo>>
    /\ UNCHANGED <<authVars, clientVars, orderVars, shopVars, apiVars, sessionVars, storeVars>>

\* deleteCachePattern, second half: client.del(...keys) when there are any;
\* after the second pattern updateProductInventory returns.
deleteCachePatternDel(k) ==
    /\ cacheOps[k].pc \in {"del1", "del2"}
    /\ cache' = [key \in CacheKeys |->
                    IF key \in cacheOps[k].keys THEN NoEntry ELSE cache[key]]
    /\ cacheOps' = [cacheOps EXCEPT ![k].keys = {},
                                    ![k].pc = IF cacheOps[k].pc = "del1" THEN "keys2" ELSE "done"]
    /\ updatedTo' = IF cacheOps[k].pc = "del2"
                    THEN [updatedTo EXCEPT ![cacheOps[k].product] = cacheOps[k].quantity]
                    ELSE updatedTo
    /\ UNCHANGED stocked
    /\ UNCHANGED <<authVars, clientVars, orderVars, shopVars, apiVars, sessionVars, storeVars>>

\* The TTL of an entry runs out.
cacheExpire(key) ==
    /\ cache[key].exists
    /\ cache' = [cache EXCEPT ![key] = NoEntry]
    /\ UNCHANGED <<stocked, cacheOps, updatedTo>>
    /\ UNCHANGED <<authVars, clientVars, orderVars, shopVars, apiVars, sessionVars, storeVars>>

\* The caller has its result; the next call may start.
productReturn(k) ==
    /\ cacheOps[k].pc = "done"
    /\ cacheOps' = [cacheOps EXCEPT ![k] = NoCacheOp]
    /\ UNCHANGED <<stocked, cache, updatedTo>>
    /\ UNCHANGED <<authVars, clientVars, orderVars, shopVars, apiVars, sessionVars, storeVars>>

NextProductService ==
    \/ \E k \in 1..MaxCacheOps : getProductsCache(k)
    \/ \E k \in 1..MaxCacheOps, p \in Products : getProductBySlugCache(k, p)
    \/ \E k \in 1..MaxCacheOps : productQuery(k)
    \/ \E k \in 1..MaxCacheOps : productSetCache(k)
    \/ \E k \in 1..MaxCacheOps, p \in Products, q \in InventoryInputs :
          updateProductInventory(k, p, q)
    \/ \E k \in 1..MaxCacheOps : deleteCachePatternKeys(k)
    \/ \E k \in 1..MaxCacheOps : deleteCachePatternDel(k)
    \/ \E key \in CacheKeys : cacheExpire(key)
    \/ \E k \in 1..MaxCacheOps : productReturn(k)

SpecProductService == InitSignup /\ [][NextProductService]_vars

\* C26: after updateProductInventory(productId, q) has completed, every
\* getProducts and getProductBySlug call started later that returns the
\* product reports quantity q and the stock status that goes with q.
C26_CacheCoherent ==
    \A k \in 1..MaxCacheOps :
        cacheOps[k].pc = "done" /\ cacheOps[k].result.exists
            => \A p \in cacheOps[k].afterUpdate \cap DOMAIN cacheOps[k].result.shown :
                  cacheOps[k].result.shown[p] =
                      [quantity |-> updatedTo[p],
                       stockStatus |-> IF updatedTo[p] > 0 THEN "in_stock"
                                       ELSE "out_of_stock"]

(***************************************************************************)
(* The frontend cart store                                                 *)
(***************************************************************************)

StoreActions == {"addItem", "removeItem", "updateQuantity", "clearCart", "fetchCart"}

\* How a request ends: success true, success false, or a rejected promise.
StoreOutcomes == {"success", "refused", "failed"}

\* updateQuantity() with a quantity of zero or less is removeItem().
storeAction(action, quantity) ==
    IF action = "updateQuantity" /\ quantity <= 0 THEN "removeItem" ELSE action

\* A store action up to its awaited request: set({ isLoading: true }).
storeStart(k, action, quantity) ==
    /\ storeOps[k].pc # "inflight"
    /\ storeOps' = [storeOps EXCEPT ![k] =
           [pc |-> "inflight", action |-> storeAction(action, quantity), outcome |-> ""]]
    /\ isLoading' = TRUE
    /\ UNCHANGED storeCart
    /\ UNCHANGED <<authVars, clientVars, orderVars, shopVars, apiVars, sessionVars, cacheVars>>

\* ProductCard: the add-to-cart button is disabled while isLoading; a click on
\* it adds one piece.
handleAddToCart(k) ==
    /\ ~isLoading
    /\ storeStart(k, "addItem", 1)

\* The cart the store holds after a request has ended.
storeCartAfter(action, outcome) ==
    IF action = "clearCart"
    THEN IF outcome = "success" THEN "null" ELSE storeCart
    ELSE IF action = "fetchCart"
    THEN IF outcome = "success" THEN action ELSE "null"
    ELSE IF outcome = "success" THEN action ELSE storeCart

\* The rest of a store action, after the request has ended: every branch
\* sets isLoading to false.
storeFinish(k, outcome) ==
    /\ storeOps[k].pc = "inflight"
    /\ storeOps' = [storeOps EXCEPT ![k].pc = "done", ![k].outcome = outcome]
    /\ storeCart' = storeCartAfter(storeOps[k].action, outcome)
    /\ isLoading' = FALSE
    /\ UNCHANGED <<authVars, clientVars, orderVars, shopVars, apiVars, sessionVars, cacheVars>>

NextCartStore ==
    \/ \E k \in 1..MaxStoreOps : handleAddToCart(k)
    \/ \E k \in 1..MaxStoreOps, action \in StoreActions \ {"addItem"}, quantity \in 0..1 :
          storeStart(k, action, quantity)
    \/ \E k \in 1..MaxStoreOps, outcome \in StoreOutcomes : storeFinish(k, outcome)

SpecCartStore == InitSignup /\ [][NextCartStore]_vars

inFlight == {k \in 1..MaxStoreOps : storeOps[k].pc = "inflight"}

\* C27: isLoading is true exactly while at least one cart request of the
\* store is in flight, overlapping actions included, and false once all of
\* them have ended, whether they succeeded or failed.
C27_LoadingWhileInFlight == isLoading <=> inFlight # {}

====
